---------------------------- MODULE Spec2Model ----------------------------
(***************************************************************************)
(* The autonomous_llm_agent orchestration engine:                          *)
(*   llm_interface.py   the model gateway (call_llm) and its semaphore     *)
(*   worker_model.py    the Worker and its [FETCH_URL: ...] augmentation   *)
(*   internet_access.py the content fetcher                                *)
(*   main.py            run_orchestration and main_concurrent_runner       *)
(*                                                                         *)
(* Text is a sequence of tokens.  A token is one character class or one    *)
(* fixed multi-character piece of text ("[FETCH_URL:", "http://", the      *)
(* fixed parts of the prompt templates).  Every asyncio task is one entry  *)
(* of `tasks`; an action is the code a task runs between two suspension    *)
(* points (an await that really suspends).                                 *)
(***************************************************************************)
EXTENDS Integers, Sequences, FiniteSets, TLC

(***************************************************************************)
(* Bounds of the model.                                                    *)
(***************************************************************************)
\* run_orchestration tasks launched by main_concurrent_runner
NumTasks == 2
\* callers that use call_llm / generate_response directly
NumClients == 2
\* largest configured gate capacity that is explored
MaxCapacity == 2
\* most chunks the remote endpoint sends on one stream
MaxChunks == 2
\* longest prompt (in tokens) given to a directly invoked Worker
MaxPromptLen == 5
\* most directives in a prompt that holds several of them
MaxDirectives == 2

(***************************************************************************)
(* Program constants.                                                      *)
(***************************************************************************)
MAX_ITERATIONS == 3
\* the ceiling is 4000 characters in the source; the model counts tokens
max_fetched_content_len == 2

(***************************************************************************)
(* Text.                                                                   *)
(***************************************************************************)
Min(S) == CHOOSE x \in S : \A y \in S : x <= y

TagTokens == {"[FETCH_URL:", "[fetch_url:"}
SchemeTokens == {"http://"}
Alphabet == {"w", " ", "]"} \cup TagTokens \cup SchemeTokens

\* white space of the regular expression
IsSpace(tok) == tok \in {" ", "\n"}

\* a URL character of the regular expression: no white space, no "]"
IsUrlChar(tok) == ~IsSpace(tok) /\ tok # "]"

\* the first index >= k of s that holds no white space (Len(s)+1 if none)
SkipSpace(s, k) ==
    Min({j \in k..Len(s) : ~IsSpace(s[j])} \cup {Len(s) + 1})

\* the first index >= k of s that holds no URL character (Len(s)+1 if none)
UrlStop(s, k) ==
    Min({j \in k..Len(s) : ~IsUrlChar(s[j])} \cup {Len(s) + 1})

\* str.strip()
Strip(s) ==
    LET keep == {j \in 1..Len(s) : ~IsSpace(s[j])}
    IN  IF keep = {} THEN <<>>
        ELSE SubSeq(s, Min(keep), CHOOSE x \in keep : \A y \in keep : y <= x)

\* None, or a text: Python's `str | None`
None == [some |-> FALSE, text |-> <<>>]
Some(s) == [some |-> TRUE, text |-> s]

\* Python's truth value of a `str | None`: None and "" are false
Truthy(v) == v.some /\ v.text # <<>>

(***************************************************************************)
(* worker_model.py: FETCH_URL_TAG_REGEX, compiled IGNORECASE and DOTALL:   *)
(* a lazy prefix group, the tag with the URL group, a greedy suffix group. *)
(***************************************************************************)
\* Faulty variant of TagMatchAt: any run of URL characters is taken for the
\* URL, with or without the http or https scheme.
TagMatchAtAnyUrl(s, p) ==
    LET q == SkipSpace(s, p + 1)
        u == UrlStop(s, q)
        e == SkipSpace(s, u)
    IN  [ok  |-> /\ s[p] \in TagTokens
                 /\ u > q
                 /\ e <= Len(s) /\ s[e] = "]",
         url_from |-> q, url_to |-> u - 1, end |-> e]

\* The tag, matched with its first token at index p: the tag keyword, white
\* space, the http or https scheme, one or more URL characters, white space,
\* the closing bracket.  The URL run is greedy and cannot give back a
\* character: what follows a shorter run is a URL character, never white
\* space or the closing bracket.
TagMatchAt(s, p) ==
    LET q == SkipSpace(s, p + 1)
        u == UrlStop(s, q + 1)
        e == SkipSpace(s, u)
    IN  [ok  |-> /\ s[p] \in TagTokens
                 /\ q <= Len(s) /\ s[q] \in SchemeTokens
                 /\ u > q + 1
                 /\ e <= Len(s) /\ s[e] = "]",
         url_from |-> q, url_to |-> u - 1, end |-> e]

\* Faulty variant of FETCH_URL_TAG_REGEX: the prefix group is greedy, so the
\* rightmost tag that matches is taken.
FETCH_URL_TAG_REGEX_GreedyPrefix(s) ==
    LET at == {p \in 1..Len(s) : TagMatchAt(s, p).ok}
    IN  IF at = {}
        THEN [matched |-> FALSE, group1 |-> <<>>, group2 |-> <<>>,
              group3 |-> <<>>]
        ELSE CHOOSE r \in
                 {[matched |-> TRUE,
                   group1 |-> SubSeq(s, 1, p - 1),
                   group2 |-> SubSeq(s, TagMatchAt(s, p).url_from,
                                     TagMatchAt(s, p).url_to),
                   group3 |-> SubSeq(s, TagMatchAt(s, p).end + 1, Len(s))]
                    : p \in {CHOOSE x \in at : \A y \in at : y <= x}} : TRUE

\* FETCH_URL_TAG_REGEX.match(s): the prefix group is lazy, so the leftmost
\* tag that matches is taken; the suffix group takes all that follows it.
FETCH_URL_TAG_REGEX(s) ==
    LET at == {p \in 1..Len(s) : TagMatchAt(s, p).ok}
    IN  IF at = {}
        THEN [matched |-> FALSE, group1 |-> <<>>, group2 |-> <<>>, group3 |-> <<>>]
        ELSE CHOOSE r \in
                 {[matched |-> TRUE,
                   group1 |-> SubSeq(s, 1, p - 1),
                   group2 |-> SubSeq(s, TagMatchAt(s, p).url_from,
                                     TagMatchAt(s, p).url_to),
                   group3 |-> SubSeq(s, TagMatchAt(s, p).end + 1, Len(s))]
                    : p \in {Min(at)}} : TRUE

DefaultInstruction == <<"Summarize or describe the content found at the URL.">>

\* worker_model.py 28-38: the instruction left when the tag is cut out
OriginalInstruction(m) ==
    LET prefix_prompt == Strip(m.group1)
        suffix_prompt == Strip(m.group3)
        joined == Strip(prefix_prompt \o <<" ">> \o suffix_prompt)
    IN  IF joined = <<>> THEN DefaultInstruction ELSE joined

\* Faulty variant of ContextFromUrl: a fetch that failed leaves nothing in
\* the prompt.
ContextFromUrlNoNote(url_to_fetch, fetched_content) ==
    IF Truthy(fetched_content)
    THEN <<"--- Context from URL: ">> \o url_to_fetch \o <<" ---", "\n">>
             \o fetched_content.text \o <<"\n", "--- End of Context ---">>
    ELSE <<>>

\* worker_model.py 46-56: the context block, or the failure note
ContextFromUrl(url_to_fetch, fetched_content) ==
    IF Truthy(fetched_content)
    THEN LET text == fetched_content.text
             fetched_content_excerpt ==
                 IF Len(text) > max_fetched_content_len
                 THEN SubSeq(text, 1, max_fetched_content_len)
                          \o <<"... (content truncated)">>
                 ELSE text
         IN  <<"--- Context from URL: ">> \o url_to_fetch \o <<" ---", "\n">>
                 \o fetched_content_excerpt \o <<"\n", "--- End of Context ---">>
    ELSE <<"--- Note: Attempted to fetch content from URL ">> \o url_to_fetch
             \o <<" but failed. Please inform the user if relevant. ---">>

\* worker_model.py 59-63: the augmented prompt
AugmentedPrompt(original_instruction, url_to_fetch, fetched_content) ==
    original_instruction \o <<"\n", "\n">>
        \o ContextFromUrl(url_to_fetch, fetched_content) \o <<"\n", "\n">>
        \o <<"Based on the original instruction and the context from the URL (if available and relevant), please provide your response.">>

\* worker_model.py 67-70: the messages of the Worker's request
WorkerMessages(conversation_history, current_prompt_for_llm) ==
    conversation_history
        \o <<[role |-> "user", content |-> current_prompt_for_llm]>>

(***************************************************************************)
(* State.                                                                  *)
(***************************************************************************)
VARIABLES
    \* llm_interface.py 16: whether the credential is in the environment
    NVIDIA_API_KEY,
    \* config.py 18: the configured capacity, as written in the configuration
    MAX_CONCURRENT_API_CALLS,
    \* llm_interface.py 20-43: [present, value, waiters], asyncio.Semaphore
    api_semaphore,
    \* every asyncio task: the orchestrations and the direct callers
    tasks,
    \* the requests the remote endpoint has received and not yet finished
    remote,
    \* main_concurrent_runner: [pc, results]
    runner

vars == <<NVIDIA_API_KEY, MAX_CONCURRENT_API_CALLS, api_semaphore, tasks,
          remote, runner>>

\* the run_orchestration tasks of main_concurrent_runner, in input order
Orchestrations == 1..NumTasks
\* direct callers of generate_response or call_llm (the modules' own tests)
Clients == (NumTasks + 1)..(NumTasks + NumClients)
Procs == Orchestrations \cup Clients

(***************************************************************************)
(* llm_interface.py 19-47: the client and the semaphore, built at import.  *)
(***************************************************************************)
IntValue(n) == [kind |-> "int", n |-> n]
NotAnInteger == [kind |-> "text", n |-> 0]
NoneValue == [kind |-> "none", n |-> 0]

\* llm_interface.py 22-26
NimClientFor(api_key) == api_key

\* Faulty variant of SemaphoreValueFor: only a negative value is replaced,
\* zero is taken as it stands.
SemaphoreValueForZeroKept(configured) ==
    IF configured.kind = "none" THEN 1
    ELSE IF configured.kind = "text" THEN 1
    ELSE IF configured.n < 0 THEN 1
    ELSE configured.n

\* llm_interface.py 28-43: the initial value of the semaphore
SemaphoreValueFor(configured) ==
    IF configured.kind = "none" THEN 1
    ELSE IF configured.kind = "text" THEN 1
    ELSE IF configured.n <= 0 THEN 1
    ELSE configured.n

\* llm_interface.py 20-47
SemaphoreFor(api_key, configured) ==
    IF api_key
    THEN [present |-> TRUE, value |-> SemaphoreValueFor(configured),
          waiters |-> <<>>]
    ELSE [present |-> FALSE, value |-> 0, waiters |-> <<>>]

nim_client == NimClientFor(NVIDIA_API_KEY)

\* the capacity of the gate: the value the semaphore was built with
Capacity == SemaphoreValueFor(MAX_CONCURRENT_API_CALLS)

(***************************************************************************)
(* asyncio.Semaphore, as `async with api_semaphore` uses it                *)
(* (llm_interface.py 87 and 115).  A waiter is [who, done]: done is the    *)
(* waiter's future having been given its result by a release.              *)
(***************************************************************************)
\* Semaphore.locked(): cancelled waiters leave the queue at once
Locked(sem) == sem.value = 0 \/ sem.waiters # <<>>

\* Faulty variant of WakeUpNext: a release wakes no waiter.
WakeUpNobody(sem) == sem

\* Semaphore._wake_up_next(): the first waiter not yet woken gets the unit
WakeUpNext(sem) ==
    LET pending == {j \in 1..Len(sem.waiters) : ~sem.waiters[j].done}
    IN  IF pending = {} THEN sem
        ELSE [sem EXCEPT !.value = @ - 1,
                         !.waiters[Min(pending)].done = TRUE]

\* Faulty variant of Release: the unit is not given back.
ReleaseKeepsUnit(sem) == sem

\* Semaphore.release(), the exit of `async with`
Release(sem) == WakeUpNext([sem EXCEPT !.value = @ + 1])

\* the queue without the waiter of task c
Without(waiters, c) ==
    LET keep == {j \in 1..Len(waiters) : waiters[j].who # c}
        nth[k \in 0..Len(waiters)] ==
            IF k = 0 THEN 0
            ELSE Min({j \in keep : j > nth[k - 1]} \cup {Len(waiters) + 1})
    IN  [k \in 1..Cardinality(keep) |-> waiters[nth[k]]]

IsWaiting(sem, c) == \E j \in 1..Len(sem.waiters) : sem.waiters[j].who = c

IsWoken(sem, c) ==
    \E j \in 1..Len(sem.waiters) :
        sem.waiters[j].who = c /\ sem.waiters[j].done

\* Semaphore.acquire() up to its await: take a unit, or queue
TryAcquire(sem, c) ==
    IF ~Locked(sem)
    THEN [sem EXCEPT !.value = @ - 1]
    ELSE [sem EXCEPT !.waiters = Append(@, [who |-> c, done |-> FALSE])]

\* Semaphore.acquire() after its await returned: leave the queue, and wake
\* the next waiter if a unit is free
AcquireResumed(sem, c) ==
    LET left == [sem EXCEPT !.waiters = Without(@, c)]
    IN  IF left.value > 0 THEN WakeUpNext(left) ELSE left

\* Semaphore.acquire() when its await raised CancelledError: leave the
\* queue; a unit already handed over is passed on
AcquireCancelled(sem, c) ==
    LET left == [sem EXCEPT !.waiters = Without(@, c)]
    IN  IF IsWoken(sem, c)
        THEN WakeUpNext([left EXCEPT !.value = @ + 1])
        ELSE left

(***************************************************************************)
(* Texts of the environment.  A text made for a task carries that task's   *)
(* word, so that a text can be told from the texts of another task.        *)
(***************************************************************************)
TaskWord(c) == ToString(c)

\* main.py 139-144: task_definitions; every second prompt has a directive
TaskPromptOf(t) ==
    IF t % 2 = 0
    THEN <<TaskWord(t), " ", "[FETCH_URL:", " ", "http://", "w", "]", " ", "w">>
    ELSE <<"w", " ", TaskWord(t)>>

\* the task words that occur in the messages of a request, in task order:
\* what the remote model writes is about what it was asked
WordsIn(messages) ==
    LET occurs(c) == \E j \in 1..Len(messages) :
                         \E k \in 1..Len(messages[j].content) :
                             messages[j].content[k] = TaskWord(c)
        upto[n \in 0..(NumTasks + NumClients)] ==
            IF n = 0 THEN <<>>
            ELSE IF occurs(n) THEN Append(upto[n - 1], TaskWord(n))
            ELSE upto[n - 1]
    IN  upto[NumTasks + NumClients]

\* what the remote model answers to a Worker's or a direct caller's request
AnswerTexts(messages) == {<<"answer">> \o WordsIn(messages)}

\* the feedback a rejecting judgment carries
FeedbackTexts(messages) == {<<"feedback">> \o WordsIn(messages)}

\* what the remote model answers to an Evaluator's request
JudgmentTexts(messages) ==
    {<<"APPROVED">> \o WordsIn(messages), <<"???">>}
        \cup {<<"REJECTED">> \o f : f \in FeedbackTexts(messages)}

\* what the content fetcher returns: None, or the page text (perhaps
\* empty, perhaps longer than the ceiling)
FetchResults ==
    {None, Some(<<>>), Some(<<"page">>),
     Some([j \in 1..(max_fetched_content_len + 1) |-> "page"])}

\* the exceptions call_llm catches (llm_interface.py 129-138, 100-105)
\* openai.APIError stands for its subclasses too (APIConnectionError,
\* AuthenticationError, RateLimitError, the timeout error)
RemoteErrors == {"APIError", "Exception"}

\* the outcome of `await nim_client.chat.completions.create(...)`
Completions(texts) ==
    {[kind |-> "content", text |-> x] : x \in texts}
        \cup {[kind |-> "empty", text |-> <<>>]}
        \cup {[kind |-> e, text |-> <<>>] : e \in RemoteErrors}

(***************************************************************************)
(* A task.  pc is the place where the task is suspended, or the place the  *)
(* code has reached inside one step.                                       *)
(***************************************************************************)
NoResult == [kind |-> "pending"]

NewTask(entry, stream, prompt) ==
    [entry |-> entry, pc |-> "unborn", stage |-> "direct",
     \* run_orchestration
     initial_task_prompt |-> IF entry = "run_orchestration" THEN prompt ELSE <<>>,
     current_task_prompt |-> <<>>,
     full_interaction_log |-> <<>>,
     final_status_for_task |-> "unset",
     i |-> 0,
     worker_response_content |-> None,
     eval_result |-> [status |-> "none", feedback |-> <<>>],
     \* the arguments of the last call of evaluator.evaluate_response
     evaluator_args |-> [task_prompt |-> <<>>, worker_response |-> <<>>,
                         constitution |-> <<>>],
     \* Worker.generate_response
     task_prompt |-> IF entry = "generate_response" THEN prompt ELSE <<>>,
     conversation_history |-> <<>>,
     url_to_fetch |-> <<>>,
     original_instruction |-> <<>>,
     fetched_content |-> None,
     \* call_llm
     stream |-> stream,
     messages |-> IF entry = "call_llm"
                  THEN <<[role |-> "user", content |-> prompt]>> ELSE <<>>,
     llm_result |-> None,
     chunks |-> 0,
     \* what the task returned or raised
     result |-> NoResult,
     \* counters of what the task has done
     worker_invocations |-> 0,
     evaluator_invocations |-> 0,
     \* how often final_status_for_task was assigned after main.py 47
     status_assignments |-> 0,
     \* what each Worker invocation gave ("text", "none") and what each
     \* Evaluator invocation gave (the verdict's status, "none" for no verdict)
     worker_results |-> <<>>,
     verdicts |-> <<>>,
     fetched |-> <<>>,
     dispatched |-> 0,
     llm_calls |-> 0]

\* Places where a task is suspended and something else must happen first.
SuspendedPcs == {"unborn", "created", "fetch", "acquire", "create", "chunk",
                 "yielded", "generator"}
\* Places where the task is over.
FinalPcs == {"returned", "raised", "exhausted", "closed"}

WORKER_MODEL_NAME == "nvidia/some-worker-model"
EVALUATOR_MODEL_NAME == "nvidia/some-evaluator-model"

(***************************************************************************)
(* The code of a task, in pieces.  Each piece takes and gives a record w:  *)
(*   w.c the task, w.task its state, w.sem the semaphore, w.remote the     *)
(*   remote endpoint's requests, w.env what the environment handed to the  *)
(*   step (a completion, a fetched page, ...).                             *)
(* A piece ends by naming the place (pc) where the code goes on.           *)
(***************************************************************************)

\* ---- llm_interface.py: call_llm ----------------------------------------

\* Faulty variant of CallLLM: the guards on nim_client and api_semaphore
\* are left out.
CallLLMNoGuard(w) ==
    IF w.task.stream
    THEN [w EXCEPT !.task.llm_calls = @ + 1, !.task.pc = "generator"]
    ELSE [w EXCEPT !.task.llm_calls = @ + 1, !.task.pc = "async_with"]

\* llm_interface.py 72-83 and 109-115: the guards, then the branch on stream
CallLLM(w) ==
    IF ~nim_client \/ ~w.sem.present
    THEN [w EXCEPT !.task.llm_calls = @ + 1,
                   !.task.llm_result = None, !.task.pc = "llm_returned"]
    ELSE IF w.task.stream
    THEN [w EXCEPT !.task.llm_calls = @ + 1, !.task.pc = "generator"]
    ELSE [w EXCEPT !.task.llm_calls = @ + 1, !.task.pc = "async_with"]

\* Faulty variant of AsyncWith: the request is sent without the semaphore
\* being asked.
AsyncWithNoGate(w) == [w EXCEPT !.task.pc = "dispatch"]

\* llm_interface.py 115 (and 87): `async with api_semaphore`, up to its await
AsyncWith(w) ==
    [w EXCEPT !.sem = TryAcquire(w.sem, w.c),
              !.task.pc = IF Locked(w.sem) THEN "acquire" ELSE "dispatch"]

\* Faulty variant of Dispatch: the messages are kept in one list that the
\* calls share, so a request also holds the messages of the requests that
\* are under way.
DispatchShared(w) ==
    LET others == {r \in w.remote : r.from # w.c}
        shared == IF others = {} THEN <<>>
                  ELSE (CHOOSE r \in others : TRUE).messages
    IN  [w EXCEPT !.remote = @ \cup {[from |-> w.c,
                                      messages |-> shared \o w.task.messages,
                                      stream |-> w.task.stream]},
                  !.task.dispatched = @ + 1,
                  !.task.pc = "create"]

\* llm_interface.py 118-124 (and 90-96): the request goes to the endpoint
Dispatch(w) ==
    [w EXCEPT !.remote = @ \cup {[from |-> w.c, messages |-> w.task.messages,
                                  stream |-> w.task.stream]},
              !.task.dispatched = @ + 1,
              !.task.pc = "create"]

\* Faulty variant of Answered: the call returns while its request is still
\* at the endpoint (create() is started and not awaited).
AnsweredNotAwaited(requests, c) == requests

\* the requests of the endpoint without those of task c
Answered(requests, c) == {r \in requests : r.from # c}

\* llm_interface.py 125-141: the completion (or the exception) is turned into
\* full_content, the semaphore is released, full_content is returned
Completion(w) ==
    LET completion == w.env.completion
        full_content ==
            IF completion.kind = "content" /\ completion.text # <<>>
            THEN Some(completion.text) ELSE None
    IN  [w EXCEPT !.sem = Release(w.sem),
                  !.remote = Answered(@, w.c),
                  !.task.llm_result = full_content,
                  !.task.messages = <<>>,
                  !.task.pc = "llm_returned"]

\* the caller of call_llm takes the result
LLMReturned(w) ==
    [w EXCEPT !.task.pc =
        CASE w.task.stage = "worker" -> "worker_returned"
          [] w.task.stage = "evaluator" -> "evaluator_returned"
          [] OTHER -> "direct_returned"]

\* a direct caller (llm_interface.py 205): the task ends with the result
DirectReturned(w) ==
    [w EXCEPT !.task.result =
                  IF Truthy(w.task.llm_result)
                  THEN [kind |-> "text", text |-> w.task.llm_result.text]
                  ELSE [kind |-> "none"],
              !.task.pc = "returned"]

\* ---- llm_interface.py: _stream_generator --------------------------------

\* llm_interface.py 90-97: the stream is open, or create() raised (100-105)
StreamOpened(w) ==
    IF w.env.completion.kind = "stream"
    THEN [w EXCEPT !.task.pc = "chunk"]
    ELSE [w EXCEPT !.sem = Release(w.sem),
                   !.remote = Answered(@, w.c),
                   !.task.messages = <<>>,
                   !.task.result = [kind |-> "stream_end", failed |-> TRUE],
                   !.task.pc = "exhausted"]

\* Faulty variant of ChunkArrived: the unit is given back while the
\* generator is suspended at its yield.
ChunkArrivedReleases(w) ==
    IF w.env.delta = "content"
    THEN [w EXCEPT !.sem = Release(w.sem),
                   !.task.chunks = @ + 1, !.task.pc = "yielded"]
    ELSE [w EXCEPT !.task.pc = "chunk"]

\* llm_interface.py 97-99: one chunk; it is yielded if it has content
ChunkArrived(w) ==
    IF w.env.delta = "content"
    THEN [w EXCEPT !.task.chunks = @ + 1, !.task.pc = "yielded"]
    ELSE [w EXCEPT !.task.pc = "chunk"]

\* Faulty variant of StreamFinished: the except clauses are left out, and a
\* failure of the stream is raised to the consumer.
StreamFinishedRaises(w) ==
    [w EXCEPT !.sem = Release(w.sem),
              !.remote = Answered(@, w.c),
              !.task.messages = <<>>,
              !.task.result =
                  IF w.env.completion.kind \in RemoteErrors
                  THEN [kind |-> "exception", type |-> w.env.completion.kind,
                        at |-> "chunk"]
                  ELSE [kind |-> "stream_end", failed |-> FALSE],
              !.task.pc = IF w.env.completion.kind \in RemoteErrors
                          THEN "raised" ELSE "exhausted"]

\* llm_interface.py 97-107: the stream ends, or raises and the exception is
\* caught (100-105); either way `async with` is left and the unit released,
\* and the generator ends.  The result keeps, for the record, whether the
\* stream had failed; the consumer sees the end of the sequence.
StreamFinished(w) ==
    [w EXCEPT !.sem = Release(w.sem),
              !.remote = Answered(@, w.c),
              !.task.messages = <<>>,
              !.task.result = [kind |-> "stream_end",
                               failed |-> w.env.completion.kind \in RemoteErrors],
              !.task.pc = "exhausted"]

\* the generator is closed while suspended at its yield (llm_interface.py
\* 99): GeneratorExit leaves `async with`
StreamClosed(w) ==
    [w EXCEPT !.sem = Release(w.sem),
              !.remote = Answered(@, w.c),
              !.task.messages = <<>>,
              !.task.pc = "closed"]

\* ---- worker_model.py: Worker.generate_response --------------------------

\* worker_model.py 20-44 (and 66-78 when no tag matches): the tag is looked
\* for; with a tag the task goes to fetch the URL, without one the prompt
\* is sent as it is
GenerateResponse(w) ==
    CHOOSE r \in
        {IF match.matched
         THEN [w EXCEPT !.task.worker_invocations = @ + 1,
                        !.task.url_to_fetch = match.group2,
                        !.task.original_instruction = OriginalInstruction(match),
                        !.task.fetched = Append(@, match.group2),
                        !.task.pc = "fetch"]
         ELSE [w EXCEPT !.task.worker_invocations = @ + 1,
                        !.task.messages =
                            WorkerMessages(w.task.conversation_history,
                                           w.task.task_prompt),
                        !.task.stage = "worker",
                        !.task.stream = FALSE,
                        !.task.pc = "call_llm"]
           : match \in {FETCH_URL_TAG_REGEX(w.task.task_prompt)}} : TRUE

\* worker_model.py 46-78: the fetched page (or None) is put into the prompt
Fetched(w) ==
    LET current_prompt_for_llm ==
            AugmentedPrompt(w.task.original_instruction, w.task.url_to_fetch,
                            w.env.fetched_content)
    IN  [w EXCEPT !.task.messages =
                      WorkerMessages(w.task.conversation_history,
                                     current_prompt_for_llm),
                  !.task.url_to_fetch = <<>>,
                  !.task.original_instruction = <<>>,
                  !.task.fetched_content = w.env.fetched_content,
                  !.task.stage = "worker",
                  !.task.stream = FALSE,
                  !.task.pc = "call_llm"]

\* Faulty variant of WorkerReturned: a call that gave nothing is made once
\* more before the Worker returns.
WorkerReturnedRetry(w) ==
    IF ~Truthy(w.task.llm_result)
       /\ w.task.llm_calls - w.task.evaluator_invocations
              <= w.task.worker_invocations
    THEN [w EXCEPT !.task.pc = "call_llm"]
    ELSE
        LET response_content ==
                IF Truthy(w.task.llm_result) THEN w.task.llm_result ELSE None
        IN  IF w.task.entry = "generate_response"
            THEN [w EXCEPT !.task.result =
                               IF response_content.some
                               THEN [kind |-> "text", text |-> response_content.text]
                               ELSE [kind |-> "none"],
                           !.task.llm_result = None,
                           !.task.conversation_history = <<>>,
                           !.task.fetched_content = None,
                           !.task.pc = "returned"]
            ELSE [w EXCEPT !.task.worker_response_content = response_content,
                           !.task.worker_results =
                               Append(@, IF response_content.some THEN "text" ELSE "none"),
                           !.task.llm_result = None,
                           !.task.conversation_history = <<>>,
                           !.task.task_prompt = <<>>,
                           !.task.fetched_content = None,
                           !.task.pc = "after_worker"]

\* worker_model.py 80-85: the response, or None, is returned
WorkerReturned(w) ==
    LET response_content ==
            IF Truthy(w.task.llm_result) THEN w.task.llm_result ELSE None
    IN  IF w.task.entry = "generate_response"
        THEN [w EXCEPT !.task.result =
                           IF response_content.some
                           THEN [kind |-> "text", text |-> response_content.text]
                           ELSE [kind |-> "none"],
                       !.task.llm_result = None,
                       !.task.conversation_history = <<>>,
                       !.task.fetched_content = None,
                       !.task.pc = "returned"]
        ELSE [w EXCEPT !.task.worker_response_content = response_content,
                       !.task.worker_results =
                           Append(@, IF response_content.some THEN "text" ELSE "none"),
                       !.task.llm_result = None,
                       !.task.conversation_history = <<>>,
                       !.task.task_prompt = <<>>,
                       !.task.fetched_content = None,
                       !.task.pc = "after_worker"]

\* ---- evaluator_model.py (not in src/): Evaluator.evaluate_response -----

INITIAL_CONSTITUTION == <<"IS_RELEVANT", "IS_CLEAR", "IS_ACCURATE", "IS_SAFE", "IS_COMPLETE">>

\* one request that holds the task prompt, the worker's response and every
\* rubric question
EvaluatorMessages(task_prompt, worker_response, constitution) ==
    <<[role |-> "user",
       content |-> <<"Task:">> \o task_prompt \o <<"Response:">>
                       \o worker_response \o <<"Rubric:">> \o constitution]>>

\* the Evaluator issues exactly one non-streaming call
EvaluateResponse(w) ==
    [w EXCEPT !.task.messages =
                  EvaluatorMessages(w.task.evaluator_args.task_prompt,
                                    w.task.evaluator_args.worker_response,
                                    w.task.evaluator_args.constitution),
              !.task.evaluator_invocations = @ + 1,
              !.task.stage = "evaluator",
              !.task.stream = FALSE,
              !.task.pc = "call_llm"]

NoVerdict == [status |-> "none", feedback |-> <<>>]
ErrorVerdict == [status |-> "error", feedback |-> <<>>]

\* the verdict read from the model's judgment; a failed call or a judgment
\* that cannot be read gives the error verdict, or no verdict at all
\* (main.py 79 expects both)
VerdictOf(llm_result, failure_form) ==
    IF ~Truthy(llm_result) THEN failure_form
    ELSE IF Head(llm_result.text) = "APPROVED"
    THEN [status |-> "approved", feedback |-> Tail(llm_result.text)]
    ELSE IF Head(llm_result.text) = "REJECTED"
    THEN [status |-> "rejected", feedback |-> Tail(llm_result.text)]
    ELSE failure_form

EvaluatorReturned(w) ==
    [w EXCEPT !.task.eval_result =
                  VerdictOf(w.task.llm_result, w.env.failure_form),
              !.task.verdicts =
                  Append(@, VerdictOf(w.task.llm_result, w.env.failure_form).status),
              !.task.llm_result = None,
              !.task.pc = "after_evaluator"]

\* ---- main.py: run_orchestration -----------------------------------------

\* main.py 17-47: the models are set up, the task's variables initialised
OrchestrationStart(w) ==
    IF WORKER_MODEL_NAME = "" \/ EVALUATOR_MODEL_NAME = ""
    THEN [w EXCEPT !.task.result = [kind |-> "none"], !.task.pc = "returned"]
    ELSE [w EXCEPT !.task.current_task_prompt = w.task.initial_task_prompt,
                   !.task.full_interaction_log = <<>>,
                   !.task.final_status_for_task = "unknown",
                   !.task.i = 0,
                   !.task.pc = "iteration"]

\* Faulty variant of IsConversationTurn: every entry of the log is taken
\* into the history.
IsAnyEntry(msg) == TRUE

\* main.py 54: the entries that make the conversation history
IsConversationTurn(msg) ==
    msg.type = "llm_message" /\ msg.role \in {"user", "assistant"}

\* main.py 52-55
LlmConversationHistory(full_interaction_log) ==
    SelectSeq(full_interaction_log, IsConversationTurn)

\* main.py 49-61: the head of the loop and the call of the Worker
Iteration(w) ==
    IF w.task.i >= MAX_ITERATIONS
    THEN [w EXCEPT !.task.pc = "orchestration_ended"]
    ELSE [w EXCEPT !.task.conversation_history =
                       LlmConversationHistory(w.task.full_interaction_log),
                   !.task.task_prompt = w.task.current_task_prompt,
                   !.task.pc = "generate_response"]

\* Faulty variant of EvaluatorArguments: the Evaluator is given the prompt
\* the Worker was given in this iteration.
EvaluatorArgumentsCurrentPrompt(task) ==
    [task_prompt |-> task.current_task_prompt,
     worker_response |-> task.worker_response_content.text,
     constitution |-> INITIAL_CONSTITUTION]

\* main.py 73-77: the arguments of evaluator.evaluate_response
EvaluatorArguments(task) ==
    [task_prompt |-> task.initial_task_prompt,
     worker_response |-> task.worker_response_content.text,
     constitution |-> INITIAL_CONSTITUTION]

\* Faulty variant of AfterWorker: the failure is noted but the loop is not
\* left, and the iteration goes on to the Evaluator.
AfterWorkerNoBreak(w) ==
    IF ~Truthy(w.task.worker_response_content)
    THEN [w EXCEPT !.task.full_interaction_log =
                       Append(@, [type |-> "system_message",
                                  content |-> <<"Worker failed to respond.">>]),
                   !.task.final_status_for_task = "worker_failed",
                   !.task.status_assignments = @ + 1,
                   !.task.pc = "evaluate_response"]
    ELSE [w EXCEPT !.task.full_interaction_log =
                       @ \o <<[type |-> "llm_message", role |-> "user",
                               content |-> w.task.current_task_prompt],
                              [type |-> "llm_message", role |-> "assistant",
                               content |-> w.task.worker_response_content.text]>>,
                   !.task.pc = "evaluate_response"]

\* main.py 63-77: the Worker's response is checked and logged
AfterWorker(w) ==
    IF ~Truthy(w.task.worker_response_content)
    THEN [w EXCEPT !.task.full_interaction_log =
                       Append(@, [type |-> "system_message",
                                  content |-> <<"Worker failed to respond.">>]),
                   !.task.final_status_for_task = "worker_failed",
                   !.task.status_assignments = @ + 1,
                   !.task.pc = "orchestration_ended"]
    ELSE [w EXCEPT !.task.full_interaction_log =
                       @ \o <<[type |-> "llm_message", role |-> "user",
                               content |-> w.task.current_task_prompt],
                              [type |-> "llm_message", role |-> "assistant",
                               content |-> w.task.worker_response_content.text]>>,
                   !.task.evaluator_args = EvaluatorArguments(w.task),
                   !.task.pc = "evaluate_response"]

\* Faulty variant of RevisionPrompt: the task is asked again with its
\* original prompt.
RevisionPromptUnchanged(initial_task_prompt, feedback) == initial_task_prompt

\* main.py 101-107
RevisionPrompt(initial_task_prompt, feedback) ==
    <<"Your previous response to the task was evaluated and needs revision. Please improve your response based on the following feedback and the original task.",
      "\n", "\n", "Original Task:", " ">> \o initial_task_prompt
        \o <<"\n", "\n", "Evaluator's Feedback:", "\n">> \o feedback
        \o <<"\n", "\n", "Your Revised Response:">>

\* Faulty variant of EvaluatorFailed: only a missing verdict counts.
EvaluatorFailedOnlyNone(eval_result) == eval_result.status = "none"

\* Faulty variant of IsApproved: the status is compared with another
\* spelling.
IsApprovedOtherSpelling(eval_result) == eval_result.status = "APPROVED"

\* Faulty variant of RejectedStatus: the status is left as it is when an
\* answer is rejected.
StatusLeftAlone(previous) == previous

\* main.py 98: the status set after every rejection, whether or not the
\* loop goes on
RejectedStatus(previous) == "rejected_max_iterations"

\* Faulty variant of NextIndex: the loop index does not advance.
SameIndex(i) == i

\* main.py 79: `not eval_result or eval_result.get("status") == "error"`
EvaluatorFailed(eval_result) ==
    eval_result.status = "none" \/ eval_result.status = "error"

\* main.py 92
IsApproved(eval_result) == eval_result.status = "approved"

\* main.py 49: the next value of `for i in range(MAX_ITERATIONS)`
NextIndex(i) == i + 1

\* Faulty variant of IterationsRemain: a revision is prepared after every
\* rejection.
IterationsRemainAlways(i) == TRUE

\* main.py 99: `if i < MAX_ITERATIONS - 1`
IterationsRemain(i) == i < MAX_ITERATIONS - 1

\* main.py 79-112: the verdict is checked and logged, the loop ends or the
\* revision prompt is built
AfterEvaluator(w) ==
    LET eval_result == w.task.eval_result
    IN  IF EvaluatorFailed(eval_result)
        THEN [w EXCEPT !.task.full_interaction_log =
                           Append(@, [type |-> "system_message",
                                      content |-> <<"Evaluator failed.">>]),
                       !.task.final_status_for_task = "evaluator_failed",
                       !.task.status_assignments = @ + 1,
                       !.task.eval_result = NoVerdict,
                       !.task.worker_response_content = None,
                       !.task.pc = "orchestration_ended"]
        ELSE LET logged == Append(w.task.full_interaction_log,
                                  [type |-> "evaluation",
                                   evaluator_model |-> EVALUATOR_MODEL_NAME,
                                   result |-> eval_result])
             IN  IF IsApproved(eval_result)
                 THEN [w EXCEPT !.task.full_interaction_log = logged,
                                !.task.final_status_for_task = "approved",
                                !.task.status_assignments = @ + 1,
                                !.task.eval_result = NoVerdict,
                                !.task.worker_response_content = None,
                                !.task.pc = "orchestration_ended"]
                 ELSE IF IterationsRemain(w.task.i)
                 THEN [w EXCEPT !.task.full_interaction_log = logged,
                                !.task.final_status_for_task = RejectedStatus(@),
                                !.task.status_assignments = @ + 1,
                                !.task.current_task_prompt =
                                    RevisionPrompt(w.task.initial_task_prompt,
                                                   eval_result.feedback),
                                !.task.eval_result = NoVerdict,
                                !.task.worker_response_content = None,
                                !.task.i = NextIndex(@),
                                !.task.pc = "iteration"]
                 ELSE [w EXCEPT !.task.full_interaction_log = logged,
                                !.task.final_status_for_task = RejectedStatus(@),
                                !.task.status_assignments = @ + 1,
                                !.task.eval_result = NoVerdict,
                                !.task.worker_response_content = None,
                                !.task.pc = "orchestration_ended"]

\* full_interaction_log[-3:]
LastThree(log) == SubSeq(log, IF Len(log) > 3 THEN Len(log) - 2 ELSE 1, Len(log))

\* main.py 114-116: the result record
OrchestrationEnded(w) ==
    [w EXCEPT !.task.result =
                  [kind |-> "record", task_id |-> w.c,
                   status |-> w.task.final_status_for_task,
                   log_excerpt |-> LastThree(w.task.full_interaction_log)],
              !.task.pc = "returned"]

\* ---- a step: the code runs on from place to place until it suspends ----
Piece(w) ==
    CASE w.task.pc = "run_orchestration" -> OrchestrationStart(w)
      [] w.task.pc = "iteration" -> Iteration(w)
      [] w.task.pc = "generate_response" -> GenerateResponse(w)
      [] w.task.pc = "fetched" -> Fetched(w)
      [] w.task.pc = "call_llm" -> CallLLM(w)
      [] w.task.pc = "async_with" -> AsyncWith(w)
      [] w.task.pc = "dispatch" -> Dispatch(w)
      [] w.task.pc = "completion" -> Completion(w)
      [] w.task.pc = "llm_returned" -> LLMReturned(w)
      [] w.task.pc = "direct_returned" -> DirectReturned(w)
      [] w.task.pc = "worker_returned" -> WorkerReturned(w)
      [] w.task.pc = "after_worker" -> AfterWorker(w)
      [] w.task.pc = "evaluate_response" -> EvaluateResponse(w)
      [] w.task.pc = "evaluator_returned" -> EvaluatorReturned(w)
      [] w.task.pc = "after_evaluator" -> AfterEvaluator(w)
      [] w.task.pc = "orchestration_ended" -> OrchestrationEnded(w)
      [] w.task.pc = "stream_opened" -> StreamOpened(w)
      [] w.task.pc = "chunk_arrived" -> ChunkArrived(w)
      [] w.task.pc = "stream_finished" -> StreamFinished(w)
      [] w.task.pc = "stream_closed" -> StreamClosed(w)

\* the task runs piece after piece until it is at a place where it is
\* suspended or over (each intermediate state is bound as a value before
\* the next piece reads it)
RECURSIVE Run(_)
Run(w) ==
    CHOOSE r \in {IF v.task.pc \in SuspendedPcs \cup FinalPcs THEN v
                  ELSE Run(Piece(v)) : v \in {w}} : TRUE

\* Faulty variant of Cancelled: the unit is acquired and released by hand,
\* with no release on the way out of a cancelled call.
CancelledLeaks(w) ==
    LET prompt == IF w.task.entry = "run_orchestration"
                  THEN w.task.initial_task_prompt ELSE <<>>
    IN  [w EXCEPT !.sem = IF w.task.pc = "acquire"
                          THEN AcquireCancelled(w.sem, w.c) ELSE w.sem,
                  !.remote = Answered(@, w.c),
                  !.task = [NewTask(w.task.entry, FALSE, prompt) EXCEPT
                                !.pc = "raised",
                                !.result = [kind |-> "exception",
                                            type |-> "CancelledError",
                                            at |-> w.task.pc]]]

\* CancelledError is raised in the task at the await where it is suspended.
\* It is no Exception, so no except clause of the code catches it; leaving
\* `async with api_semaphore` (llm_interface.py 87, 115) releases the unit,
\* and a task cancelled while it waits for a unit leaves the queue.  The
\* task's local variables are gone with its frame.
Cancelled(w) ==
    LET sem == IF w.task.pc = "acquire" THEN AcquireCancelled(w.sem, w.c)
               ELSE IF w.task.pc \in {"create", "chunk"} THEN Release(w.sem)
               ELSE w.sem
        prompt == IF w.task.entry = "run_orchestration"
                  THEN w.task.initial_task_prompt ELSE <<>>
    IN  [w EXCEPT !.sem = sem,
                  !.remote = Answered(@, w.c),
                  !.task = [NewTask(w.task.entry, FALSE, prompt) EXCEPT
                                !.pc = "raised",
                                !.result = [kind |-> "exception",
                                            type |-> "CancelledError",
                                            at |-> w.task.pc]]]

(***************************************************************************)
(* Actions.                                                                *)
(***************************************************************************)
NoEnv ==
    [completion |-> [kind |-> "empty", text |-> <<>>],
     fetched_content |-> None,
     failure_form |-> ErrorVerdict,
     delta |-> "empty"]

\* the state a step of task c starts from, with the code at place pc
World(c, pc, env) ==
    [c |-> c, task |-> [tasks[c] EXCEPT !.pc = pc], sem |-> api_semaphore,
     remote |-> remote, env |-> env]

\* task c runs from place pc until it suspends or ends
Step(c, pc, env) ==
    \E w \in {Run(World(c, pc, env))} :
        /\ tasks' = [tasks EXCEPT ![c] = w.task]
        /\ api_semaphore' = w.sem
        /\ remote' = w.remote
        /\ UNCHANGED <<NVIDIA_API_KEY, MAX_CONCURRENT_API_CALLS, runner>>

\* main.py 119-151: the runner checks the configuration and starts one
\* run_orchestration per task definition
RunnerStart ==
    /\ runner.pc = "start"
    /\ IF ~NVIDIA_API_KEY \/ WORKER_MODEL_NAME = "" \/ EVALUATOR_MODEL_NAME = ""
       THEN /\ runner' = [runner EXCEPT !.pc = "refused"]
            /\ UNCHANGED tasks
       ELSE /\ runner' = [runner EXCEPT !.pc = "gather"]
            /\ tasks' = [c \in Procs |->
                            IF c \in Orchestrations
                            THEN [tasks[c] EXCEPT !.pc = "created"]
                            ELSE tasks[c]]
    /\ UNCHANGED <<NVIDIA_API_KEY, MAX_CONCURRENT_API_CALLS, api_semaphore, remote>>

\* asyncio.gather(..., return_exceptions=True): what a finished task gave
OutcomeOf(task) == task.result

\* Faulty variant of RunnerGathered: gather without return_exceptions, which
\* returns as soon as one task has raised.
RunnerGatheredFailFast ==
    /\ runner.pc = "gather"
    /\ \/ \A t \in Orchestrations : tasks[t].pc \in FinalPcs
       \/ \E t \in Orchestrations : tasks[t].pc = "raised"
    /\ runner' = [pc |-> "returned",
                  results |-> [t \in Orchestrations |-> OutcomeOf(tasks[t])]]
    /\ UNCHANGED <<NVIDIA_API_KEY, MAX_CONCURRENT_API_CALLS, api_semaphore,
                   tasks, remote>>

\* main.py 151-163: gather returns when every task is over, with one outcome
\* per task in the order of the task definitions
RunnerGathered ==
    /\ runner.pc = "gather"
    /\ \A t \in Orchestrations : tasks[t].pc \in FinalPcs
    /\ runner' = [pc |-> "returned",
                  results |-> [t \in Orchestrations |-> OutcomeOf(tasks[t])]]
    /\ UNCHANGED <<NVIDIA_API_KEY, MAX_CONCURRENT_API_CALLS, api_semaphore,
                   tasks, remote>>

\* a task is run for the first time
TaskStart(c) ==
    /\ tasks[c].pc = "created"
    /\ Step(c, tasks[c].entry, NoEnv)

\* internet_access.py 12-52: fetch_url_content returns the text, or None
FetchReturns(c) ==
    /\ tasks[c].pc = "fetch"
    /\ \E r \in FetchResults :
           Step(c, "fetched", [NoEnv EXCEPT !.fetched_content = r])

\* a task that waited for a unit is resumed with it
AcquireResumes(c) ==
    /\ tasks[c].pc = "acquire"
    /\ IsWoken(api_semaphore, c)
    /\ LET w == World(c, "dispatch", NoEnv)
           r == Run([w EXCEPT !.sem = AcquireResumed(w.sem, c)])
       IN  /\ tasks' = [tasks EXCEPT ![c] = r.task]
           /\ api_semaphore' = r.sem
           /\ remote' = r.remote
    /\ UNCHANGED <<NVIDIA_API_KEY, MAX_CONCURRENT_API_CALLS, runner>>

\* the request of task c at the remote endpoint
RequestOf(c) == CHOOSE r \in remote : r.from = c

\* the texts the remote model may answer to the request of task c
ResponseTexts(c) ==
    IF tasks[c].stage = "evaluator"
    THEN JudgmentTexts(RequestOf(c).messages)
    ELSE AnswerTexts(RequestOf(c).messages)

\* the remote endpoint answers a non-streaming request, or the call fails
Respond(c) ==
    /\ tasks[c].pc = "create"
    /\ ~tasks[c].stream
    /\ \E completion \in Completions(ResponseTexts(c)) :
       \E form \in IF tasks[c].stage = "evaluator"
                   THEN {ErrorVerdict, NoVerdict} ELSE {ErrorVerdict} :
           Step(c, "completion", [NoEnv EXCEPT !.completion = completion,
                                               !.failure_form = form])

\* the remote endpoint opens the stream, or the call fails
StreamRespond(c) ==
    /\ tasks[c].pc = "create"
    /\ tasks[c].stream
    /\ \E kind \in {"stream"} \cup RemoteErrors :
           Step(c, "stream_opened",
                [NoEnv EXCEPT !.completion = [kind |-> kind, text |-> <<>>]])

\* the remote endpoint sends one chunk, with or without content
StreamChunk(c) ==
    /\ tasks[c].pc = "chunk"
    /\ tasks[c].chunks < MaxChunks
    /\ \E delta \in {"content", "empty"} :
           Step(c, "chunk_arrived", [NoEnv EXCEPT !.delta = delta])

\* the remote endpoint ends the stream, or the stream fails
StreamEnds(c) ==
    /\ tasks[c].pc = "chunk"
    /\ \E kind \in {"end"} \cup RemoteErrors :
           Step(c, "stream_finished",
                [NoEnv EXCEPT !.completion = [kind |-> kind, text |-> <<>>]])

\* the consumer asks the generator for the next chunk (llm_interface.py 184)
Pull(c) ==
    \/ /\ tasks[c].pc = "generator"
       /\ Step(c, "async_with", NoEnv)
    \/ /\ tasks[c].pc = "yielded"
       /\ Step(c, "chunk", NoEnv)

\* the consumer drops the generator before it is exhausted
Close(c) ==
    \/ /\ tasks[c].pc = "generator"
       /\ Step(c, "closed", NoEnv)
    \/ /\ tasks[c].pc = "yielded"
       /\ Step(c, "stream_closed", NoEnv)

\* the task is cancelled while it is suspended
Cancel(c) ==
    /\ tasks[c].pc \in {"created", "fetch", "acquire", "create", "chunk"}
    /\ LET w == Cancelled(World(c, tasks[c].pc, NoEnv))
       IN  /\ tasks' = [tasks EXCEPT ![c] = w.task]
           /\ api_semaphore' = w.sem
           /\ remote' = w.remote
    /\ UNCHANGED <<NVIDIA_API_KEY, MAX_CONCURRENT_API_CALLS, runner>>

(***************************************************************************)
(* The programs.  main.py runs main_concurrent_runner with NumTasks        *)
(* orchestrations.  llm_interface.py and worker_model.py run direct        *)
(* callers of call_llm and of generate_response (their own tests); here    *)
(* NumClients of them run concurrently.  Each program is its own process,  *)
(* with its own client and semaphore.                                      *)
(***************************************************************************)
\* what config.py may hold for MAX_CONCURRENT_API_CALLS
ConfiguredValues ==
    {IntValue(n) : n \in -1..MaxCapacity} \cup {NotAnInteger, NoneValue}

\* the values that are capacities as they stand
Capacities == {IntValue(n) : n \in 1..MaxCapacity}

\* a task that is not part of the program that runs
Absent == NewTask("call_llm", FALSE, <<>>)

\* the prompts of a directly invoked Worker
ClientPromptOf(c) ==
    {<<"w", TaskWord(c)>>, <<"[FETCH_URL:", "http://", TaskWord(c), "]">>}

ClientTasks(c) ==
    {NewTask("call_llm", st, <<"Hello", TaskWord(c)>>) : st \in BOOLEAN}
        \cup {NewTask("generate_response", FALSE, p) : p \in ClientPromptOf(c)}

\* main.py is run, with a capacity in the configuration
InitRunner ==
    /\ MAX_CONCURRENT_API_CALLS \in Capacities
    /\ tasks = [c \in Procs |->
                   IF c \in Orchestrations
                   THEN NewTask("run_orchestration", FALSE, TaskPromptOf(c))
                   ELSE Absent]
    /\ runner = [pc |-> "start", results |-> <<>>]

\* the kinds of direct callers, in an order
ClientKind(task) ==
    IF task.entry = "call_llm" THEN (IF task.stream THEN 1 ELSE 2)
    ELSE IF FETCH_URL_TAG_REGEX(task.task_prompt).matched THEN 3 ELSE 4

\* direct callers are run, with whatever the configuration holds.  The
\* callers are interchangeable, and every order in which they start and
\* go on is explored, so one assignment of the kinds of callers stands for
\* all its permutations: the one in the order of the kinds.
InitClients ==
    /\ MAX_CONCURRENT_API_CALLS \in ConfiguredValues
    /\ \E clients \in [Clients -> UNION {ClientTasks(c) : c \in Clients}] :
           /\ \A c \in Clients : clients[c] \in ClientTasks(c)
           /\ \A c, d \in Clients :
                  c < d => ClientKind(clients[c]) <= ClientKind(clients[d])
           /\ tasks = [c \in Procs |->
                          IF c \in Clients
                          THEN [clients[c] EXCEPT !.pc = "created"]
                          ELSE Absent]
    /\ runner = [pc |-> "absent", results |-> <<>>]

Init ==
    /\ NVIDIA_API_KEY \in BOOLEAN
    /\ InitRunner \/ InitClients
    /\ api_semaphore = SemaphoreFor(NVIDIA_API_KEY, MAX_CONCURRENT_API_CALLS)
    /\ remote = {}

Next ==
    \/ RunnerStart
    \/ RunnerGathered
    \/ \E c \in Procs : TaskStart(c)
    \/ \E c \in Procs : FetchReturns(c)
    \/ \E c \in Procs : AcquireResumes(c)
    \/ \E c \in Procs : Respond(c)
    \/ \E c \in Procs : StreamRespond(c)
    \/ \E c \in Procs : StreamChunk(c)
    \/ \E c \in Procs : StreamEnds(c)
    \/ \E c \in Procs : Pull(c)
    \/ \E c \in Procs : Close(c)
    \/ \E c \in Procs : Cancel(c)

Spec == Init /\ [][Next]_vars

(***************************************************************************)
(* worker_model.py alone: one Worker is invoked with any prompt of up to   *)
(* MaxPromptLen tokens (test_worker_logic, worker_model.py 87-153).        *)
(***************************************************************************)
Prompts == UNION {[1..k -> Alphabet] : k \in 0..MaxPromptLen}

\* the task that runs the Worker
TheWorker == NumTasks + 1

InitWorker ==
    /\ NVIDIA_API_KEY \in BOOLEAN
    /\ MAX_CONCURRENT_API_CALLS = IntValue(1)
    /\ api_semaphore = SemaphoreFor(NVIDIA_API_KEY, MAX_CONCURRENT_API_CALLS)
    /\ remote = {}
    /\ \E p \in Prompts :
           tasks = [c \in Procs |->
                       IF c = TheWorker
                       THEN [NewTask("generate_response", FALSE, p)
                                EXCEPT !.pc = "created"]
                       ELSE Absent]
    /\ runner = [pc |-> "absent", results |-> <<>>]

NextWorker ==
    \/ TaskStart(TheWorker)
    \/ FetchReturns(TheWorker)
    \/ Respond(TheWorker)
    \/ Cancel(TheWorker)

SpecWorker == InitWorker /\ [][NextWorker]_vars

(***************************************************************************)
(* Properties.                                                             *)
(***************************************************************************)
\* the calls that hold a unit and have their request at the remote endpoint
InFlight == {c \in Procs : tasks[c].pc \in {"create", "chunk", "yielded"}}

\* the calls a release has handed a unit to, not yet resumed
Granted ==
    {c \in Procs : tasks[c].pc = "acquire" /\ IsWoken(api_semaphore, c)}

\* the calls that wait for a unit
Suspended ==
    {c \in Procs : tasks[c].pc = "acquire" /\ ~IsWoken(api_semaphore, c)}

\* C1: whatever the configured capacity and however many tasks run, at most
\* Capacity calls (streaming or not, of a Worker, an Evaluator or a direct
\* caller) are between acquiring and releasing the gate, so at most
\* Capacity requests are at the remote endpoint; a call that waits for the
\* gate has sent no request.
C1_AtMostCapacityInFlight ==
    /\ Capacity >= 1
    /\ Cardinality(InFlight \cup Granted) <= Capacity
    /\ Cardinality(remote) <= Capacity
    /\ {r.from : r \in remote} = InFlight
    /\ \A c \in Procs :
           tasks[c].pc = "acquire" =>
               /\ IsWaiting(api_semaphore, c)
               /\ ~\E r \in remote : r.from = c

\* the gate is saturated by an Evaluator's call among others, and the call
\* of another task is suspended
C1_Witness ==
    /\ runner.pc = "gather"
    /\ Cardinality(remote) = Capacity
    /\ Suspended # {}
    /\ \E r \in remote : tasks[r.from].stage = "evaluator"

\* C2: a unit a call acquired is given back when the call ends, however it
\* ends: the free units are always in 0..Capacity, they are Capacity less
\* the calls that hold one, and all of them are free when no call holds
\* one; a call that is over neither holds a unit nor waits for one.
C2_UnitsConserved ==
    api_semaphore.present =>
        /\ api_semaphore.value \in 0..Capacity
        /\ api_semaphore.value + Cardinality(InFlight \cup Granted) = Capacity
        /\ (InFlight \cup Granted = {} => api_semaphore.value = Capacity)
        /\ \A c \in Procs :
               tasks[c].pc \in FinalPcs => ~IsWaiting(api_semaphore, c)

\* one call was cancelled while its stream was open, another one failed
\* after its request was sent, and every unit is free again
C2_Witness ==
    /\ api_semaphore.present
    /\ api_semaphore.value = Capacity
    /\ \E c, d \in Procs :
           /\ tasks[c].pc = "raised"
           /\ tasks[c].result.at = "chunk"
           /\ tasks[d].pc = "returned"
           /\ tasks[d].dispatched = 1
           /\ tasks[d].result = [kind |-> "none"]

IsAssistantTurn(msg) == msg.type = "llm_message" /\ msg.role = "assistant"
IsUserTurn(msg) == msg.type = "llm_message" /\ msg.role = "user"
IsEvaluation(msg) == msg.type = "evaluation"

AssistantTurns(log) == Len(SelectSeq(log, IsAssistantTurn))
UserTurns(log) == Len(SelectSeq(log, IsUserTurn))
Evaluations(log) == Len(SelectSeq(log, IsEvaluation))

\* every invocation of the Worker gave a text
WorkerAlwaysAnswered(task) ==
    \A j \in 1..Len(task.worker_results) : task.worker_results[j] = "text"

\* C3: when the Worker answered every time and the Evaluator rejected its
\* first k answers (k < MAX_ITERATIONS) and approved the next one, the
\* orchestration has ended after exactly k+1 iterations with the status
\* "approved", and its log holds exactly k+1 assistant turns and k+1
\* evaluation entries.
C3_ApprovedAfterKRejections ==
    \A t \in Orchestrations : \A k \in 0..(MAX_ITERATIONS - 1) :
        LET task == tasks[t]
        IN  (/\ task.pc = "returned"
             /\ WorkerAlwaysAnswered(task)
             /\ Len(task.verdicts) > k
             /\ \A j \in 1..k : task.verdicts[j] = "rejected"
             /\ task.verdicts[k + 1] = "approved")
            => /\ task.i = k
               /\ task.worker_invocations = k + 1
               /\ task.evaluator_invocations = k + 1
               /\ Len(task.verdicts) = k + 1
               /\ task.final_status_for_task = "approved"
               /\ task.result.status = "approved"
               /\ AssistantTurns(task.full_interaction_log) = k + 1
               /\ Evaluations(task.full_interaction_log) = k + 1

\* an orchestration was approved on its last iteration, after
\* MAX_ITERATIONS - 1 rejections
C3_Witness ==
    \E t \in Orchestrations :
        /\ tasks[t].pc = "returned"
        /\ Len(tasks[t].verdicts) = MAX_ITERATIONS
        /\ \A j \in 1..(MAX_ITERATIONS - 1) : tasks[t].verdicts[j] = "rejected"
        /\ tasks[t].verdicts[MAX_ITERATIONS] = "approved"
        /\ tasks[t].result.status = "approved"

\* C4: the Worker is never invoked more than MAX_ITERATIONS times for one
\* task; and when the Worker answered every time and the Evaluator rejected
\* every answer, the orchestration has ended in iteration MAX_ITERATIONS
\* with the status "rejected_max_iterations".
C4_StopsAtMaxIterations ==
    \A t \in Orchestrations :
        LET task == tasks[t]
        IN  /\ task.worker_invocations <= MAX_ITERATIONS
            /\ (/\ task.pc = "returned"
                /\ WorkerAlwaysAnswered(task)
                /\ \A j \in 1..Len(task.verdicts) : task.verdicts[j] = "rejected")
               => /\ task.i = MAX_ITERATIONS - 1
                  /\ task.worker_invocations = MAX_ITERATIONS
                  /\ Len(task.verdicts) = MAX_ITERATIONS
                  /\ task.final_status_for_task = "rejected_max_iterations"
                  /\ task.result.status = "rejected_max_iterations"

\* an orchestration ended after MAX_ITERATIONS rejections
C4_Witness ==
    \E t \in Orchestrations :
        /\ tasks[t].pc = "returned"
        /\ tasks[t].worker_invocations = MAX_ITERATIONS
        /\ tasks[t].verdicts = [j \in 1..MAX_ITERATIONS |-> "rejected"]
        /\ tasks[t].result.status = "rejected_max_iterations"

\* C5: when the Worker gave no text on its n-th invocation (the first one
\* or a later one), the orchestration has ended with the status
\* "worker_failed"; the log ends with the failure note, it holds the user
\* and assistant turns of the n-1 earlier iterations only, and the
\* Evaluator was invoked n-1 times: not in that iteration, and never again.
C5_WorkerFailureEndsTask ==
    \A t \in Orchestrations :
        LET task == tasks[t]
            n == Len(task.worker_results)
            log == task.full_interaction_log
        IN  (n > 0 /\ task.worker_results[n] = "none")
            => /\ task.pc = "returned"
               /\ task.final_status_for_task = "worker_failed"
               /\ task.result.status = "worker_failed"
               /\ Len(log) > 0
               /\ log[Len(log)] = [type |-> "system_message",
                                   content |-> <<"Worker failed to respond.">>]
               /\ UserTurns(log) = n - 1
               /\ AssistantTurns(log) = n - 1
               /\ task.worker_invocations = n
               /\ task.evaluator_invocations = n - 1
               /\ Len(task.verdicts) = n - 1

\* one orchestration's Worker failed in the first iteration, another one's
\* in the second
C5_Witness ==
    \E t, u \in Orchestrations :
        /\ tasks[t].worker_results = <<"none">>
        /\ tasks[t].evaluator_invocations = 0
        /\ tasks[u].worker_results = <<"text", "none">>
        /\ tasks[u].result.status = "worker_failed"

\* C6: when the Evaluator gave no verdict, or a verdict with the status
\* "error", on its n-th invocation, the orchestration has ended with the
\* status "evaluator_failed"; the log ends with the failure note, it holds
\* the evaluation entries of the n-1 earlier iterations only, and neither
\* the Worker nor the Evaluator was invoked again.
C6_EvaluatorFailureEndsTask ==
    \A t \in Orchestrations :
        LET task == tasks[t]
            n == Len(task.verdicts)
            log == task.full_interaction_log
        IN  (n > 0 /\ task.verdicts[n] \in {"none", "error"})
            => /\ task.pc = "returned"
               /\ task.final_status_for_task = "evaluator_failed"
               /\ task.result.status = "evaluator_failed"
               /\ Len(log) > 0
               /\ log[Len(log)] = [type |-> "system_message",
                                   content |-> <<"Evaluator failed.">>]
               /\ Evaluations(log) = n - 1
               /\ AssistantTurns(log) = n
               /\ task.worker_invocations = n
               /\ task.evaluator_invocations = n

\* one orchestration's Evaluator gave no verdict in the first iteration,
\* another one's gave the error verdict in the second
C6_Witness ==
    \E t, u \in Orchestrations :
        /\ tasks[t].verdicts = <<"none">>
        /\ tasks[t].result.status = "evaluator_failed"
        /\ tasks[u].verdicts = <<"rejected", "error">>
        /\ tasks[u].result.status = "evaluator_failed"

\* the words of the other tasks
ForeignWords(t) == {TaskWord(u) : u \in Procs \ {t}}

\* a text that holds no word of another task
OwnText(t, text) == \A k \in 1..Len(text) : text[k] \notin ForeignWords(t)

\* a text that holds the word of the task
Carries(t, text) == \E k \in 1..Len(text) : text[k] = TaskWord(t)

\* the text of a log entry: the content of a turn or of a note, the
\* feedback of an evaluation
EntryText(msg) ==
    IF msg.type = "evaluation" THEN msg.result.feedback ELSE msg.content

\* the entries of the log of task t were made from the texts of task t
OwnLog(t, log) ==
    \A j \in 1..Len(log) :
        /\ OwnText(t, EntryText(log[j]))
        /\ log[j].type # "system_message" => Carries(t, EntryText(log[j]))

\* no prompt, answer or verdict of another task is in a task's log, in its
\* current prompt or in the record it returns
C7_NoForeignText ==
    \A t \in Orchestrations :
        /\ OwnLog(t, tasks[t].full_interaction_log)
        /\ OwnText(t, tasks[t].current_task_prompt)
        /\ tasks[t].result.kind = "record" =>
               /\ tasks[t].result.task_id = t
               /\ OwnLog(t, tasks[t].result.log_excerpt)

\* a step that changes the log, the current prompt or the status of a task
\* is a step of that task: the task was suspended, and no other task and
\* not the runner is changed by the step
C7_OwnStep ==
    \A t \in Orchestrations :
        (\/ tasks'[t].full_interaction_log # tasks[t].full_interaction_log
         \/ tasks'[t].current_task_prompt # tasks[t].current_task_prompt
         \/ tasks'[t].final_status_for_task # tasks[t].final_status_for_task)
        => /\ tasks[t].pc \in SuspendedPcs
           /\ \A u \in Procs \ {t} : tasks'[u] = tasks[u]
           /\ runner' = runner

\* C7: with the orchestrations running concurrently, under every
\* interleaving and every capacity of the gate, every entry of a task's log
\* comes from that task's own iterations (no prompt, answer or verdict of
\* another task is in it), and a task's current prompt and status are
\* changed by its own orchestrator only.
C7_TasksAreIsolated == []C7_NoForeignText /\ [][C7_OwnStep]_vars

\* every orchestration has gone through a revision while the requests of
\* two of them were under way at the same time
C7_Witness ==
    /\ Cardinality(remote) >= 2
    /\ \A t \in Orchestrations :
           /\ Evaluations(tasks[t].full_interaction_log) >= 1
           /\ tasks[t].current_task_prompt # tasks[t].initial_task_prompt
           /\ tasks[t].pc = "create"

TerminalStatuses ==
    {"approved", "rejected_max_iterations", "worker_failed", "evaluator_failed"}

\* when the runner has returned, every orchestration is over and the
\* results hold one outcome per orchestration, in input order: the task's
\* own record with its own final status, or the exception it raised
C8_Outcomes ==
    /\ runner.pc = "returned" =>
           /\ DOMAIN runner.results = Orchestrations
           /\ \A t \in Orchestrations :
                  /\ tasks[t].pc \in FinalPcs
                  /\ runner.results[t] = tasks[t].result
                  /\ runner.results[t].kind \in {"record", "exception"}
                  /\ runner.results[t].kind = "record" =>
                         /\ runner.results[t].task_id = t
                         /\ runner.results[t].status
                                = tasks[t].final_status_for_task
                         /\ runner.results[t].status \in TerminalStatuses
    /\ runner.pc # "returned" => runner.results = <<>>

\* the step in which an orchestration ends (it raises, or returns with
\* whatever status) changes no other task and not the runner, and a task
\* that is over changes no more
C8_FaultsStayLocal ==
    \A t \in Orchestrations :
        /\ (tasks[t].pc \notin FinalPcs /\ tasks'[t].pc \in FinalPcs)
               => /\ \A u \in Procs \ {t} : tasks'[u] = tasks[u]
                  /\ runner' = runner
        /\ tasks[t].pc \in FinalPcs => tasks'[t] = tasks[t]

\* C8: the runner returns exactly one outcome per submitted task, in input
\* order, each the task's result record or the fault it raised; a fault or
\* a failure status of one task does not end or change another task, and
\* the runner still waits for the tasks that remain.
C8_OneOutcomePerTask == []C8_Outcomes /\ [][C8_FaultsStayLocal]_vars

\* the runner returned the fault of the first task and the record of the
\* second one, which was approved after the first one had raised
C8_Witness ==
    /\ runner.pc = "returned"
    /\ NumTasks >= 2
    /\ runner.results[1].kind = "exception"
    /\ runner.results[2].kind = "record"
    /\ runner.results[2].status = "approved"
    /\ runner.results[2].log_excerpt # <<>>

\* C9: without the credential every call of call_llm, streaming or not,
\* returns None at once: no call acquires the semaphore or waits for it,
\* no request reaches the remote endpoint.
C9_NotConfiguredNeverDispatches ==
    ~NVIDIA_API_KEY =>
        /\ remote = {}
        /\ api_semaphore = [present |-> FALSE, value |-> 0, waiters |-> <<>>]
        /\ \A c \in Procs :
               /\ tasks[c].dispatched = 0
               /\ tasks[c].pc \notin {"acquire", "create", "chunk", "yielded",
                                      "generator"}
               /\ tasks[c].pc = "returned" => tasks[c].result = [kind |-> "none"]

\* without the credential, a streaming and a non-streaming call have both
\* returned None
C9_Witness ==
    /\ ~NVIDIA_API_KEY
    /\ \E c, d \in Procs :
           /\ tasks[c].entry = "call_llm" /\ tasks[c].stream
           /\ tasks[c].pc = "returned" /\ tasks[c].result = [kind |-> "none"]
           /\ tasks[d].entry = "call_llm" /\ ~tasks[d].stream
           /\ tasks[d].pc = "returned" /\ tasks[d].result = [kind |-> "none"]

\* the text holds a well-formed directive: the tag keyword, white space or
\* none, the scheme, one URL character or more, white space or none, the
\* closing bracket
WellFormedDirective(s) ==
    \E p, q, u, e \in 1..Len(s) :
        /\ p < q /\ q < u /\ u < e
        /\ s[p] \in TagTokens
        /\ \A j \in (p + 1)..(q - 1) : IsSpace(s[j])
        /\ s[q] \in SchemeTokens
        /\ \A j \in (q + 1)..u : IsUrlChar(s[j])
        /\ \A j \in (u + 1)..(e - 1) : IsSpace(s[j])
        /\ s[e] = "]"

\* C10: for a task prompt that holds no well-formed directive the
\* augmentation is the identity: the Worker's request holds one user
\* message, which is the task prompt, and the content fetcher is not
\* invoked.
C10_NoDirectiveIsIdentity ==
    LET task == tasks[TheWorker]
    IN  ~WellFormedDirective(task.task_prompt) =>
            /\ task.fetched = <<>>
            /\ task.pc # "fetch"
            /\ \A r \in remote :
                   r.messages = <<[role |-> "user", content |-> task.task_prompt]>>

\* the request of a prompt that holds the tag keyword and the scheme, but
\* no well-formed directive, is at the remote endpoint
C10_Witness ==
    LET task == tasks[TheWorker]
    IN  /\ task.pc = "create"
        /\ \E k \in 1..Len(task.task_prompt) : task.task_prompt[k] \in TagTokens
        /\ \E k \in 1..Len(task.task_prompt) : task.task_prompt[k] \in SchemeTokens
        /\ \E k \in 1..Len(task.task_prompt) : task.task_prompt[k] = "]"
        /\ ~WellFormedDirective(task.task_prompt)
        /\ \E r \in remote :
               r.messages = <<[role |-> "user", content |-> task.task_prompt]>>

\* sub occurs in s as a run of consecutive tokens
Contains(s, sub) ==
    \E k \in 0..(Len(s) - Len(sub)) : SubSeq(s, k + 1, k + Len(sub)) = sub

\* the text is nothing but one well-formed directive for url, with white
\* space or nothing before and after it
DirectiveAlone(s, url) ==
    \E p, q, u, e \in 1..Len(s) :
        /\ p < q /\ q < u /\ u < e
        /\ \A j \in 1..(p - 1) : IsSpace(s[j])
        /\ s[p] \in TagTokens
        /\ \A j \in (p + 1)..(q - 1) : IsSpace(s[j])
        /\ s[q] \in SchemeTokens
        /\ \A j \in (q + 1)..u : IsUrlChar(s[j])
        /\ url = SubSeq(s, q, u)
        /\ \A j \in (u + 1)..(e - 1) : IsSpace(s[j])
        /\ s[e] = "]"
        /\ \A j \in (e + 1)..Len(s) : IsSpace(s[j])

\* the fetched text as the context block shows it: cut at the ceiling, with
\* the truncation marker, when it is longer
ShownText(text) ==
    IF Len(text) > max_fetched_content_len
    THEN SubSeq(text, 1, max_fetched_content_len) \o <<"... (content truncated)">>
    ELSE text

\* the context block for url that holds text
ContextBlock(url, text) ==
    <<"--- Context from URL: ">> \o url \o <<" ---", "\n">>
        \o ShownText(text) \o <<"\n", "--- End of Context ---">>

\* the prompts that are one directive alone
DirectiveAloneUrls(s) ==
    {SubSeq(s, q, u) : q \in 1..Len(s), u \in 1..Len(s)}

\* C11: for a prompt that is a directive alone and a fetch that returned a
\* text, the prompt sent to the model starts with the default instruction
\* and holds the context block, labelled with the URL, with the fetched
\* text in it.
C11_DirectiveAloneGetsContext ==
    LET task == tasks[TheWorker]
    IN  \A url \in DirectiveAloneUrls(task.task_prompt) :
            (/\ task.pc = "create"
             /\ DirectiveAlone(task.task_prompt, url)
             /\ task.fetched_content.some)
            => \A r \in remote :
                   /\ Len(r.messages) = 1
                   /\ r.messages[1].role = "user"
                   /\ SubSeq(r.messages[1].content, 1, 3)
                          = DefaultInstruction \o <<"\n", "\n">>
                   /\ Contains(r.messages[1].content,
                               ContextBlock(url, task.fetched_content.text))

\* the same for a fetched text that is not empty
C11_NonEmptyTextGetsContext ==
    LET task == tasks[TheWorker]
    IN  \A url \in DirectiveAloneUrls(task.task_prompt) :
            (/\ task.pc = "create"
             /\ DirectiveAlone(task.task_prompt, url)
             /\ task.fetched_content.some
             /\ task.fetched_content.text # <<>>)
            => \A r \in remote :
                   /\ Len(r.messages) = 1
                   /\ r.messages[1].role = "user"
                   /\ SubSeq(r.messages[1].content, 1, 3)
                          = DefaultInstruction \o <<"\n", "\n">>
                   /\ Contains(r.messages[1].content,
                               ContextBlock(url, task.fetched_content.text))

\* the prompt is a directive alone, the fetcher returned the empty text of
\* a page without body, and the prompt sent to the model holds the failure
\* note in place of the context block
C11_Witness ==
    LET task == tasks[TheWorker]
    IN  /\ task.pc = "create"
        /\ \E url \in DirectiveAloneUrls(task.task_prompt) :
               /\ DirectiveAlone(task.task_prompt, url)
               /\ \A r \in remote :
                      ~Contains(r.messages[1].content, ContextBlock(url, <<>>))
        /\ task.fetched_content = Some(<<>>)
        /\ \E r \in remote :
               Contains(r.messages[1].content,
                        <<"--- Note: Attempted to fetch content from URL ">>)

\* the orchestration is inside its loop
InLoop(t) ==
    /\ tasks[t].entry = "run_orchestration"
    /\ tasks[t].pc \in {"fetch", "acquire", "create"}

\* C12 as stated: final_status is assigned exactly once in a run, in the
\* iteration where the loop exits; while the loop goes on, final_status
\* holds its initial value.
C12_StatusAssignedOnce ==
    \A t \in Orchestrations :
        /\ InLoop(t) =>
               /\ tasks[t].final_status_for_task = "unknown"
               /\ tasks[t].status_assignments = 0
        /\ tasks[t].pc = "returned" => tasks[t].status_assignments = 1

\* the status that the event in which the loop exits calls for
ExitStatus(task) ==
    IF task.worker_results[Len(task.worker_results)] = "none"
    THEN "worker_failed"
    ELSE CASE task.verdicts[Len(task.verdicts)] \in {"none", "error"}
                  -> "evaluator_failed"
           [] task.verdicts[Len(task.verdicts)] = "approved" -> "approved"
           [] OTHER -> "rejected_max_iterations"

\* C12 as amended: final_status is assigned once for every verdict and once
\* for a failure of the Worker.  While the loop goes on it holds its
\* initial value up to the first rejection and "rejected_max_iterations"
\* from then on; the status of the returned record is the one assigned in
\* the iteration where the loop exits, and it is "rejected_max_iterations"
\* only when the last allowed iteration ended in a rejection.
C12_StatusDecidedAtExit ==
    \A t \in Orchestrations :
        LET task == tasks[t]
        IN  /\ InLoop(t) =>
                   /\ task.status_assignments = Len(task.verdicts)
                   /\ \A j \in 1..Len(task.verdicts) : task.verdicts[j] = "rejected"
                   /\ task.final_status_for_task =
                          IF task.verdicts = <<>> THEN "unknown"
                          ELSE "rejected_max_iterations"
            /\ task.pc = "returned" =>
                   /\ task.status_assignments =
                          Len(task.verdicts)
                              + IF ExitStatus(task) = "worker_failed" THEN 1 ELSE 0
                   /\ task.status_assignments >= 1
                   /\ task.final_status_for_task = ExitStatus(task)
                   /\ task.result.status = ExitStatus(task)
                   /\ (ExitStatus(task) = "rejected_max_iterations"
                           => Len(task.verdicts) = MAX_ITERATIONS)

\* an orchestration is in its second iteration after a rejection, with the
\* status already "rejected_max_iterations", and another one has returned
\* "approved" after the status had been assigned twice
C12_Witness ==
    \E t, u \in Orchestrations :
        /\ InLoop(t)
        /\ tasks[t].i = 1
        /\ tasks[t].final_status_for_task = "rejected_max_iterations"
        /\ tasks[u].pc = "returned"
        /\ tasks[u].result.status = "approved"
        /\ tasks[u].status_assignments = 2

(***************************************************************************)
(* Progress.  The event loop runs every task that can run, the remote      *)
(* endpoint answers every request and ends every stream, every fetch       *)
(* returns, and the consumer of a stream goes on pulling (or closes it).   *)
(* Nothing is assumed about cancellation.                                  *)
(***************************************************************************)
Fairness ==
    /\ WF_vars(RunnerStart)
    /\ WF_vars(RunnerGathered)
    /\ \A c \in Procs :
           /\ WF_vars(TaskStart(c))
           /\ WF_vars(FetchReturns(c))
           /\ WF_vars(AcquireResumes(c))
           /\ WF_vars(Respond(c))
           /\ WF_vars(StreamRespond(c))
           /\ WF_vars(StreamEnds(c))
           /\ WF_vars(Pull(c))

SpecFair == Init /\ [][Next]_vars /\ Fairness

\* C13: under the fairness above, a call that is suspended waiting for a
\* unit of the gate is eventually admitted (its request is sent), unless
\* its task is cancelled first; this for every call and however many other
\* calls compete.
C13_WaitingCallIsAdmitted ==
    \A c \in Procs :
        (c \in Suspended) ~> (tasks[c].pc = "create" \/ tasks[c].pc = "raised")

\* a call that held the only unit asks again and waits behind a call that
\* waited and has just been handed the unit
C13_Witness ==
    \E c \in Suspended, d \in Granted :
        /\ tasks[c].dispatched >= 1
        /\ tasks[d].dispatched = 0
        /\ Capacity = 1

\* the tasks that have begun and are not over
Unfinished == {c \in Procs : tasks[c].pc \notin FinalPcs \cup {"unborn"}}

\* not every unfinished task is blocked on the gate
NoGateDeadlock == Unfinished # {} => ~(Unfinished \subseteq Suspended)

\* run_orchestration of task t has returned its record with one of the four
\* terminal statuses
Terminated(t) ==
    /\ tasks[t].pc = "returned"
    /\ tasks[t].result.kind = "record"
    /\ tasks[t].result.status \in TerminalStatuses

\* task t was cancelled from outside
WasCancelled(t) ==
    /\ tasks[t].pc = "raised"
    /\ tasks[t].result.type = "CancelledError"

\* C14: under the fairness above (every remote request and every fetch
\* returns, every ready task is run), with any of the capacities and
\* NumTasks tasks, every task that was started ends with one of the four
\* terminal statuses unless it is cancelled, the runner then returns, and
\* in no reachable state are all unfinished tasks blocked on the gate.
C14_EveryTaskTerminates ==
    /\ []NoGateDeadlock
    /\ \A t \in Orchestrations :
           (tasks[t].pc = "created") ~> (Terminated(t) \/ WasCancelled(t))
    /\ (runner.pc = "gather") ~> (runner.pc = "returned")

\* the runner has returned after two tasks competed for one unit, one of
\* them approved and the other out of iterations
C14_Witness ==
    /\ runner.pc = "returned"
    /\ Capacity = 1
    /\ Terminated(1) /\ tasks[1].result.status = "approved"
    /\ Terminated(2) /\ tasks[2].result.status = "rejected_max_iterations"
    /\ tasks[1].dispatched >= 2 /\ tasks[2].dispatched = 2 * MAX_ITERATIONS

(***************************************************************************)
(* main.py with an Evaluator whose model words its rejections in more than *)
(* one way: the feedback of two rejections may be the same text or not.    *)
(* The tasks share one unit and run to their end.                          *)
(***************************************************************************)
\* another wording of the feedback of a rejecting judgment
OtherFeedbackTexts(messages) == {<<"feedback", "again">> \o WordsIn(messages)}

\* the remote endpoint answers an Evaluator's request with a rejection in
\* the other wording
RespondAgain(c) ==
    /\ tasks[c].pc = "create"
    /\ ~tasks[c].stream
    /\ tasks[c].stage = "evaluator"
    /\ \E f \in OtherFeedbackTexts(RequestOf(c).messages) :
           Step(c, "completion",
                [NoEnv EXCEPT !.completion = [kind |-> "content",
                                              text |-> <<"REJECTED">> \o f]])

InitRevision ==
    /\ NVIDIA_API_KEY = TRUE
    /\ InitRunner
    /\ MAX_CONCURRENT_API_CALLS = IntValue(1)
    /\ api_semaphore = SemaphoreFor(NVIDIA_API_KEY, MAX_CONCURRENT_API_CALLS)
    /\ remote = {}

NextRevision ==
    \/ RunnerStart
    \/ RunnerGathered
    \/ \E c \in Orchestrations : TaskStart(c)
    \/ \E c \in Orchestrations : FetchReturns(c)
    \/ \E c \in Orchestrations : AcquireResumes(c)
    \/ \E c \in Orchestrations : Respond(c)
    \/ \E c \in Orchestrations : RespondAgain(c)

SpecRevision == InitRevision /\ [][NextRevision]_vars

\* the current_task_prompt values the Worker was given, iteration by
\* iteration: the user turns of the log (main.py 69) and, while iteration i
\* has not yet logged its turn, the current prompt
PromptsGiven(task) ==
    LET turns == SelectSeq(task.full_interaction_log, IsUserTurn)
    IN  [j \in 1..Len(turns) |-> turns[j].content]
            \o (IF task.i = Len(turns) /\ task.worker_invocations > Len(turns)
                THEN <<task.current_task_prompt>> ELSE <<>>)

\* the feedback texts of the verdicts, iteration by iteration
FeedbackGiven(task) ==
    LET evaluations == SelectSeq(task.full_interaction_log, IsEvaluation)
    IN  [j \in 1..Len(evaluations) |-> evaluations[j].result.feedback]

\* C15 as stated: the prompt given to the Worker at iteration i+1 differs
\* from the prompt given at iteration i, whatever the feedback texts were.
C15_PromptAlwaysChanges ==
    \A t \in Orchestrations :
        LET given == PromptsGiven(tasks[t])
        IN  \A j \in 1..(Len(given) - 1) : given[j + 1] # given[j]

\* C15, amended: the prompt of every iteration after the first is the
\* revision prompt built from the original prompt and the feedback of the
\* iteration before; it always differs from the original prompt given at
\* the first iteration, and two consecutive revision prompts are the same
\* text exactly when the two feedback texts are.
C15_PromptFollowsFeedback ==
    \A t \in Orchestrations :
        LET given == PromptsGiven(tasks[t])
            feedback == FeedbackGiven(tasks[t])
        IN  /\ Len(given) >= 1 => given[1] = tasks[t].initial_task_prompt
            /\ Len(feedback) >= Len(given) - 1
            /\ \A j \in 2..Len(given) :
                   /\ given[j] = RevisionPrompt(tasks[t].initial_task_prompt,
                                                feedback[j - 1])
                   /\ given[j] # given[1]
            /\ \A j \in 2..(Len(given) - 1) :
                   (given[j + 1] = given[j]) <=> (feedback[j] = feedback[j - 1])

\* one task was given the same revision prompt twice, the other two
\* different revision prompts
C15_Witness ==
    /\ Len(PromptsGiven(tasks[1])) = 3
    /\ PromptsGiven(tasks[1])[3] = PromptsGiven(tasks[1])[2]
    /\ Len(PromptsGiven(tasks[2])) = 3
    /\ PromptsGiven(tasks[2])[3] # PromptsGiven(tasks[2])[2]

\* the prompt of the request the Worker of task t has prepared or sent
RequestPrompt(t) == tasks[t].messages[Len(tasks[t].messages)].content

\* the Worker of task t is at its gateway call with an augmented prompt: it
\* found a directive and the fetch has returned
AfterFetch(t) ==
    /\ tasks[t].stage = "worker"
    /\ tasks[t].pc \in {"acquire", "create"}
    /\ RequestPrompt(t) # tasks[t].task_prompt

\* the fetch of this Worker invocation failed (fetch_url_content gave None)
FetchFailed(t) == AfterFetch(t) /\ ~tasks[t].fetched_content.some

\* the last gateway call of the Worker of task t gave no text
WorkerCallFailed(t) ==
    /\ tasks[t].worker_results # <<>>
    /\ tasks[t].worker_results[Len(tasks[t].worker_results)] = "none"

\* the last call of the Evaluator of task t gave no verdict
EvaluatorCallFailed(t) ==
    /\ tasks[t].verdicts # <<>>
    /\ tasks[t].verdicts[Len(tasks[t].verdicts)] \in {"none", "error"}

\* the record task t has returned tells of a failure, by its status or by
\* a system_message entry of the log
FailureRecorded(t) ==
    /\ tasks[t].pc = "returned"
    /\ tasks[t].result.kind = "record"
    /\ \/ tasks[t].result.status \in {"worker_failed", "evaluator_failed"}
       \/ \E j \in 1..Len(tasks[t].full_interaction_log) :
              tasks[t].full_interaction_log[j].type = "system_message"

\* the note that stands for the content of a page that could not be fetched
FailureNote(url) ==
    <<"--- Note: Attempted to fetch content from URL ">> \o url
        \o <<" but failed. Please inform the user if relevant. ---">>

RequestsOf(t) == {r \in remote : r.from = t}

\* the places of task t in the queue of the gate
WaitsOf(t) ==
    IF api_semaphore.present
    THEN {j \in 1..Len(api_semaphore.waiters) : api_semaphore.waiters[j].who = t}
    ELSE {}

\* the units of the gate task t holds: one for each request it has at the
\* endpoint, one for each place in the queue that a release has served
UnitsHeld(t) ==
    Cardinality(RequestsOf(t))
        + Cardinality({j \in WaitsOf(t) : api_semaphore.waiters[j].done})

\* the operations task t is suspended in: a URL fetch, requests at the
\* endpoint, waits for the gate
Outstanding(t) ==
    (IF tasks[t].pc = "fetch" THEN 1 ELSE 0)
        + Cardinality(RequestsOf(t)) + Cardinality(WaitsOf(t))

\* C17: a task has at most one operation outstanding at any time, a URL
\* fetch or a gateway call (so never a Worker call and an Evaluator call
\* together); it holds at most one unit of the gate and holds none while it
\* waits for one.
C17_OneOperationAtATime ==
    \A t \in Procs :
        /\ Outstanding(t) <= 1
        /\ UnitsHeld(t) <= 1
        /\ t \in Suspended => UnitsHeld(t) = 0
        /\ tasks[t].pc = "fetch" => UnitsHeld(t) = 0
        /\ RequestsOf(t) # {} =>
               /\ tasks[t].pc \in {"create", "chunk", "yielded"}
               /\ \A r \in RequestsOf(t) : r.messages = tasks[t].messages
        /\ tasks[t].pc \in FinalPcs => Outstanding(t) = 0

\* one task is at its Evaluator call with the only unit, one waits for the
\* gate with its Worker call after its fetch
C17_Witness ==
    \E t, u \in Orchestrations :
        /\ Capacity = 1
        /\ tasks[t].pc = "create" /\ tasks[t].stage = "evaluator"
        /\ tasks[t].dispatched = 2
        /\ u \in Suspended /\ tasks[u].stage = "worker"
        /\ tasks[u].fetched # <<>>

\* the gateway calls the Worker of a task has made
WorkerCalls(task) == task.llm_calls - task.evaluator_invocations

\* C18: every invocation of the Worker, with or without a directive in the
\* prompt and whatever the fetch gave, makes exactly one gateway call once
\* its fetch is over, the call is not streaming and sends at most one
\* request to the endpoint; a call that failed is not made again, the
\* Worker returns the failure.
C18_OneCallPerInvocation ==
    \A t \in Procs :
        LET task == tasks[t]
        IN  task.entry \in {"run_orchestration", "generate_response"} =>
                /\ WorkerCalls(task) =
                       task.worker_invocations
                           - (IF task.pc = "fetch" THEN 1 ELSE 0)
                /\ task.dispatched <= task.llm_calls
                /\ \A r \in RequestsOf(t) : ~r.stream
                /\ task.entry = "run_orchestration" =>
                       /\ Len(task.worker_results) <= task.worker_invocations
                       /\ \A j \in 1..(Len(task.worker_results) - 1) :
                              task.worker_results[j] = "text"
                /\ (task.entry = "generate_response" /\ task.pc = "returned") =>
                       /\ task.worker_invocations = 1
                       /\ task.result.kind = "none" => task.dispatched <= 1

\* an orchestration's Worker failed at its second invocation, after a
\* fetch, with its one request sent, and the task made no further call
C18_Witness ==
    /\ \E t \in Orchestrations :
           /\ tasks[t].pc = "returned"
           /\ tasks[t].worker_results = <<"text", "none">>
           /\ tasks[t].fetched # <<>>
           /\ tasks[t].worker_invocations = 2
           /\ tasks[t].llm_calls = 3 /\ tasks[t].dispatched = 3

\* the stream of call c failed and its chunk sequence is at its end
StreamFailed(c) ==
    /\ tasks[c].pc = "exhausted"
    /\ tasks[c].result.kind = "stream_end"
    /\ tasks[c].result.failed

\* C19: a streaming call whose stream fails, after no chunk or after some,
\* ends its chunk sequence: nothing is raised to the consumer (the only
\* exception a call ever ends with is its cancellation), and when the
\* sequence is at its end the call holds no unit and has no request at the
\* endpoint, the units of the gate being all accounted for.
C19_FailedStreamEndsQuietly ==
    \A c \in Procs :
        /\ tasks[c].pc = "raised" => tasks[c].result.type = "CancelledError"
        /\ tasks[c].pc = "exhausted" =>
               /\ tasks[c].stream
               /\ tasks[c].result.kind = "stream_end"
               /\ tasks[c].chunks \in 0..MaxChunks
               /\ UnitsHeld(c) = 0
               /\ RequestsOf(c) = {}
               /\ c \notin InFlight \cup Granted
               /\ api_semaphore.present =>
                      api_semaphore.value + Cardinality(InFlight \cup Granted)
                          = Capacity

\* one stream failed before its first chunk, another after chunks were
\* produced, and every unit is free
C19_Witness ==
    \E c, d \in Procs :
        /\ StreamFailed(c) /\ tasks[c].chunks = 0 /\ tasks[c].dispatched = 1
        /\ StreamFailed(d) /\ tasks[d].chunks >= 1
        /\ api_semaphore.value = Capacity

\* the Worker of orchestration t has its request ready or sent
AtWorkerCall(t) ==
    /\ tasks[t].entry = "run_orchestration"
    /\ tasks[t].stage = "worker"
    /\ tasks[t].pc \in {"acquire", "create"}

\* the user and assistant turns of iterations 0..i-1, in the order they
\* were appended: each earlier iteration appended its user turn, its
\* assistant turn and its evaluation entry
EarlierTurns(log, i) ==
    [j \in 1..(2 * i) |-> log[3 * ((j - 1) \div 2) + ((j - 1) % 2) + 1]]

\* the prompt the Worker sends for task_prompt: the prompt itself, or the
\* augmented prompt when it holds a directive
EffectivePrompt(task_prompt, fetched_content) ==
    IF FETCH_URL_TAG_REGEX(task_prompt).matched
    THEN AugmentedPrompt(OriginalInstruction(FETCH_URL_TAG_REGEX(task_prompt)),
                         FETCH_URL_TAG_REGEX(task_prompt).group2,
                         fetched_content)
    ELSE task_prompt

\* C20: at iteration i the history passed to the Worker is the user and
\* assistant llm_message entries of iterations 0..i-1 in their order, with
\* no evaluation entry or system note, and the request sent to the gateway
\* is that history followed by one user message that holds the current
\* prompt, augmented when it has a directive.
C20_HistoryThenOnePrompt ==
    \A t \in Orchestrations :
        LET task == tasks[t]
            log == task.full_interaction_log
            history == EarlierTurns(log, task.i)
        IN  /\ (task.entry = "run_orchestration" /\ task.pc = "fetch") =>
                   /\ Len(log) = 3 * task.i
                   /\ task.conversation_history = history
            /\ AtWorkerCall(t) =>
                   /\ Len(log) = 3 * task.i
                   /\ \A j \in 1..Len(log) :
                          CASE j % 3 = 1 -> IsUserTurn(log[j])
                            [] j % 3 = 2 -> IsAssistantTurn(log[j])
                            [] OTHER -> IsEvaluation(log[j])
                   /\ task.conversation_history = history
                   /\ task.messages =
                          history \o
                              <<[role |-> "user",
                                 content |-> EffectivePrompt(task.current_task_prompt,
                                                             task.fetched_content)]>>
                   /\ tasks[t].pc = "create" =>
                          \A r \in RequestsOf(t) : r.messages = task.messages

\* the third iteration's request is at the endpoint: four earlier turns and
\* the revision prompt, augmented with the page that was fetched
C20_Witness ==
    \E t \in Orchestrations :
        /\ AtWorkerCall(t) /\ tasks[t].pc = "create"
        /\ tasks[t].i = 2
        /\ Len(tasks[t].messages) = 5
        /\ Truthy(tasks[t].fetched_content)
        /\ RequestsOf(t) # {}

\* the Worker found a directive, its fetch has returned and its request is
\* at the endpoint
FetchedAndSent ==
    /\ tasks[TheWorker].pc = "create"
    /\ tasks[TheWorker].fetched # <<>>

\* the prompt of the Worker's request holds the context block for the URL
\* it fetched with this text in it, and no failure note
HasContextBlock(text) ==
    \A r \in remote :
        /\ Contains(r.messages[Len(r.messages)].content,
                    ContextBlock(tasks[TheWorker].fetched[1], text))
        /\ ~Contains(r.messages[Len(r.messages)].content,
                     FailureNote(tasks[TheWorker].fetched[1]))

\* the prompt of the Worker's request holds the failure note for the URL it
\* fetched, and no context block
HasFailureNoteOnly ==
    \A r \in remote :
        /\ Contains(r.messages[Len(r.messages)].content,
                    FailureNote(tasks[TheWorker].fetched[1]))
        /\ ~Contains(r.messages[Len(r.messages)].content,
                     <<"--- Context from URL: ">>)

\* C21: for a prompt with a directive, whenever the fetch succeeded, with a
\* text of any length (the empty text too), the prompt sent to the model
\* holds the context block labelled with the URL and holding that text, cut
\* at the ceiling with the truncation marker when longer; the failure note
\* stands in only when the fetch failed.
C21_EveryFetchedTextGetsContext ==
    FetchedAndSent =>
        IF tasks[TheWorker].fetched_content.some
        THEN HasContextBlock(tasks[TheWorker].fetched_content.text)
        ELSE HasFailureNoteOnly

\* the same, the empty text set aside
C21_NonEmptyFetchedTextGetsContext ==
    (FetchedAndSent /\ tasks[TheWorker].fetched_content # Some(<<>>)) =>
        IF tasks[TheWorker].fetched_content.some
        THEN HasContextBlock(tasks[TheWorker].fetched_content.text)
        ELSE HasFailureNoteOnly

\* a prompt with an instruction and a directive, a fetch that gave the
\* empty text, and the failure note in the request
C21_Witness ==
    /\ FetchedAndSent
    /\ tasks[TheWorker].fetched_content = Some(<<>>)
    /\ Len(tasks[TheWorker].task_prompt) > 4
    /\ HasFailureNoteOnly

\* the task t is at its Evaluator call: evaluate_response has been invoked
\* and has not returned
AtEvaluatorCall(t) ==
    /\ tasks[t].entry = "run_orchestration"
    /\ tasks[t].stage = "evaluator"
    /\ tasks[t].pc \in {"acquire", "create"}

\* the text of the last assistant turn of the log
LastAnswer(log) ==
    LET turns == SelectSeq(log, IsAssistantTurn)
    IN  turns[Len(turns)].content

\* C22: on every iteration, revision iterations included, the Evaluator is
\* invoked with the task's original prompt exactly as submitted (not the
\* revision prompt the Worker was given, not the augmented prompt the Worker
\* sent) together with the answer the Worker gave in that iteration; the
\* stored original prompt is never modified.
C22_EvaluatorGetsOriginalPrompt ==
    \A t \in Orchestrations :
        LET task == tasks[t]
        IN  /\ task.entry = "run_orchestration" =>
                   task.initial_task_prompt = TaskPromptOf(t)
            /\ AtEvaluatorCall(t) =>
                   /\ task.evaluator_invocations = task.i + 1
                   /\ task.evaluator_args.task_prompt = TaskPromptOf(t)
                   /\ task.evaluator_args.worker_response =
                          task.worker_response_content.text
                   /\ task.evaluator_args.worker_response =
                          LastAnswer(task.full_interaction_log)
                   /\ Len(SelectSeq(task.full_interaction_log,
                                    IsAssistantTurn)) = task.i + 1

\* a task whose prompt holds a directive is at its Evaluator call in a
\* revision iteration: the Worker was given a revision prompt and sent an
\* augmented one, the Evaluator is given neither
C22_Witness ==
    \E t \in Orchestrations :
        /\ AtEvaluatorCall(t)
        /\ tasks[t].i >= 1
        /\ FETCH_URL_TAG_REGEX(TaskPromptOf(t)).matched
        /\ tasks[t].current_task_prompt # tasks[t].initial_task_prompt
        /\ tasks[t].evaluator_args.task_prompt = TaskPromptOf(t)
        /\ RequestsOf(t) # {}

(***************************************************************************)
(* worker_model.py alone, prompts with several directives: one Worker is   *)
(* invoked with a prompt that holds 2..MaxDirectives well-formed           *)
(* directives, with or without text before, between and after them.        *)
(***************************************************************************)
\* the text around the directives
Fillers == {<<>>, <<"w">>, <<" ", "w", " ">>}

\* well-formed directives, for two URLs, in either case of the keyword
Directives == {<<tag, " ", "http://", u, "]">> : tag \in TagTokens, u \in {"a", "b"}}

RECURSIVE PromptsWith(_)
PromptsWith(n) ==
    IF n = 0 THEN Fillers
    ELSE {f \o d \o rest : f \in Fillers, d \in Directives,
                           rest \in PromptsWith(n - 1)}

DirectivePrompts == UNION {PromptsWith(n) : n \in 2..MaxDirectives}

InitDirectives ==
    /\ NVIDIA_API_KEY \in BOOLEAN
    /\ MAX_CONCURRENT_API_CALLS = IntValue(1)
    /\ api_semaphore = SemaphoreFor(NVIDIA_API_KEY, MAX_CONCURRENT_API_CALLS)
    /\ remote = {}
    /\ \E p \in DirectivePrompts :
           tasks = [c \in Procs |->
                       IF c = TheWorker
                       THEN [NewTask("generate_response", FALSE, p)
                                EXCEPT !.pc = "created"]
                       ELSE Absent]
    /\ runner = [pc |-> "absent", results |-> <<>>]

SpecDirectives == InitDirectives /\ [][NextWorker]_vars

\* where the directives of a prompt begin, read off the text: in these
\* prompts every keyword opens a well-formed directive
DirectiveStarts(s) == {p \in 1..Len(s) : s[p] \in TagTokens}

\* where the directive that begins at p ends: its closing bracket
DirectiveEnd(s, p) == Min({j \in p..Len(s) : s[j] = "]"})

\* the URL of the directive that begins at p: what stands between the
\* keyword and the closing bracket, without the white space
DirectiveUrl(s, p) ==
    SelectSeq(SubSeq(s, p + 1, DirectiveEnd(s, p) - 1), LAMBDA tok : ~IsSpace(tok))

\* C23: at most one directive is recognized per prompt: for a prompt with
\* two or more well-formed directives one invocation of the Worker asks the
\* fetcher exactly once, for the URL of the first directive, and every later
\* directive is part of the instruction text of the request, verbatim.
C23_OnlyFirstDirectiveFetched ==
    LET task == tasks[TheWorker]
        s == task.task_prompt
        starts == DirectiveStarts(s)
        first == Min(starts)
    IN  Cardinality(starts) >= 2 =>
        /\ task.worker_invocations <= 1
        /\ task.worker_invocations = 0 => task.fetched = <<>>
        /\ task.worker_invocations = 1 =>
               task.fetched = <<DirectiveUrl(s, first)>>
        /\ \A r \in remote :
               LET prompt == r.messages[Len(r.messages)].content
                   instruction == SubSeq(prompt, 1, Min({j \in 1..Len(prompt) : prompt[j] = "\n"}) - 1)
               IN  /\ \A p \in starts \ {first} :
                          Contains(instruction,
                                   SubSeq(s, p, DirectiveEnd(s, p)))
                   /\ Contains(instruction,
                               SubSeq(s, DirectiveEnd(s, first) + 1, Len(s)))
                          \/ Contains(instruction,
                                      Strip(SubSeq(s, DirectiveEnd(s, first) + 1, Len(s))))
                   /\ ~Contains(instruction, SubSeq(s, first, DirectiveEnd(s, first)))
                          \/ \E p \in starts \ {first} :
                                 SubSeq(s, p, DirectiveEnd(s, p)) =
                                     SubSeq(s, first, DirectiveEnd(s, first))
                   /\ Len(SelectSeq(prompt, LAMBDA tok : tok \in {"--- Context from URL: ", "--- Note: Attempted to fetch content from URL "})) = 1

\* the Worker's request is at the endpoint for a prompt whose two directives
\* name different URLs: the first was fetched, the second is in the request
C23_Witness ==
    LET task == tasks[TheWorker]
        s == task.task_prompt
        starts == DirectiveStarts(s)
    IN  /\ task.pc = "create"
        /\ remote # {}
        /\ Cardinality(starts) >= 2
        /\ \E p \in starts \ {Min(starts)} :
               /\ DirectiveUrl(s, p) # DirectiveUrl(s, Min(starts))
               /\ task.fetched = <<DirectiveUrl(s, Min(starts))>>
               /\ \A r \in remote :
                      Contains(r.messages[Len(r.messages)].content,
                               SubSeq(s, p, DirectiveEnd(s, p)))

(***************************************************************************)
(* The direct callers alone: callers of call_llm (main_test,               *)
(* llm_interface.py 144-216), streaming or not, and of generate_response,  *)
(* with whatever the configuration holds, with or without the credential.  *)
(***************************************************************************)
InitDirectCallers ==
    /\ NVIDIA_API_KEY \in BOOLEAN
    /\ InitClients
    /\ api_semaphore = SemaphoreFor(NVIDIA_API_KEY, MAX_CONCURRENT_API_CALLS)
    /\ remote = {}

NextDirectCallers ==
    \/ \E c \in Clients : TaskStart(c)
    \/ \E c \in Clients : FetchReturns(c)
    \/ \E c \in Clients : AcquireResumes(c)
    \/ \E c \in Clients : Respond(c)
    \/ \E c \in Clients : StreamRespond(c)
    \/ \E c \in Clients : StreamChunk(c)
    \/ \E c \in Clients : StreamEnds(c)
    \/ \E c \in Clients : Pull(c)
    \/ \E c \in Clients : Close(c)
    \/ \E c \in Clients : Cancel(c)

SpecDirectCallers == InitDirectCallers /\ [][NextDirectCallers]_vars

\* the capacity the configuration asks for: the configured value when it is
\* a positive integer, 1 for zero, a negative value, a value that is not a
\* number and a missing value
ExpectedCapacity(configured) ==
    IF configured.kind = "int" /\ configured.n >= 1 THEN configured.n ELSE 1

\* C24: when the credential is present the gate is there and its capacity
\* is an integer >= 1 for every configured value: the configured value when
\* that is a positive integer, 1 when it is zero, negative, not a number or
\* missing; the units free and the units held always add up to it, so the
\* gate is never built with 0 units and never without a bound.
C24_CapacityAtLeastOne ==
    NVIDIA_API_KEY =>
        /\ nim_client
        /\ api_semaphore.present
        /\ Capacity \in Nat \ {0}
        /\ Capacity = ExpectedCapacity(MAX_CONCURRENT_API_CALLS)
        /\ api_semaphore.value + Cardinality(InFlight \cup Granted) =
               ExpectedCapacity(MAX_CONCURRENT_API_CALLS)
        /\ Cardinality(remote) <= ExpectedCapacity(MAX_CONCURRENT_API_CALLS)

\* the configured value is not a positive integer (zero, negative, not a
\* number, missing) and the gate admits one call and keeps another waiting
C24_Witness ==
    /\ NVIDIA_API_KEY
    /\ MAX_CONCURRENT_API_CALLS \in
           {IntValue(0), IntValue(-1), NotAnInteger, NoneValue}
    /\ Cardinality(remote) = 1
    /\ Suspended # {}

\* C25: at iteration 0 the current prompt is the original prompt; at every
\* iteration i > 0 that is executed it is the revision prompt built from
\* the original prompt and the feedback of the verdict of iteration i-1,
\* not of an older verdict with another feedback; the loop index never
\* leaves 0..MAX_ITERATIONS-1 and the verdict of the last allowed iteration
\* builds no revision prompt: the current prompt stays the one that
\* iteration was given.
C25_RevisionFromPreviousVerdict ==
    \A t \in Orchestrations :
        LET task == tasks[t]
            feedback == FeedbackGiven(task)
        IN  /\ task.i \in 0..(MAX_ITERATIONS - 1)
            /\ Len(feedback) \in {task.i, task.i + 1}
            /\ (task.i = 0 /\ task.worker_invocations >= 1) =>
                   task.current_task_prompt = TaskPromptOf(t)
            /\ task.i > 0 =>
                   /\ task.worker_invocations \in {task.i, task.i + 1}
                   /\ task.current_task_prompt =
                          RevisionPrompt(TaskPromptOf(t), feedback[task.i])
                   /\ \A j \in 1..(task.i - 1) :
                          feedback[j] # feedback[task.i] =>
                              task.current_task_prompt #
                                  RevisionPrompt(TaskPromptOf(t), feedback[j])
            /\ Len(feedback) = MAX_ITERATIONS =>
                   /\ task.i = MAX_ITERATIONS - 1
                   /\ task.current_task_prompt =
                          RevisionPrompt(TaskPromptOf(t),
                                         feedback[MAX_ITERATIONS - 1])

\* a task was rejected at every allowed iteration, with a feedback at the
\* last but one iteration that differs from the one before and from the
\* one after: its orchestration has ended and its current prompt is still
\* the revision prompt of the last iteration
C25_Witness ==
    \E t \in Orchestrations :
        LET feedback == FeedbackGiven(tasks[t])
        IN  /\ tasks[t].pc = "returned"
            /\ tasks[t].final_status_for_task = "rejected_max_iterations"
            /\ Len(feedback) = MAX_ITERATIONS
            /\ feedback[1] # feedback[2]
            /\ feedback[3] # feedback[2]
            /\ tasks[t].current_task_prompt =
                   RevisionPrompt(TaskPromptOf(t), feedback[2])

(***************************************************************************)
(* The runner with an Evaluator whose feedback may itself hold a           *)
(* directive: the feedback is text of the remote model, and main.py        *)
(* 101-107 puts it into the next prompt of the Worker as it is.            *)
(***************************************************************************)
\* the URL the feedback names; no task prompt holds it
FeedbackUrl == <<"http://", "elsewhere">>

\* a feedback that holds a directive
DirectiveFeedbackTexts ==
    {<<"feedback", " ", "[FETCH_URL:", " ">> \o FeedbackUrl \o <<"]">>}

\* the remote endpoint answers an Evaluator's request with a rejection whose
\* feedback holds a directive
RespondWithDirective(c) ==
    /\ tasks[c].pc = "create"
    /\ ~tasks[c].stream
    /\ tasks[c].stage = "evaluator"
    /\ \E f \in DirectiveFeedbackTexts :
           Step(c, "completion",
                [NoEnv EXCEPT !.completion = [kind |-> "content",
                                              text |-> <<"REJECTED">> \o f]])

NextFeedback ==
    \/ RunnerStart
    \/ RunnerGathered
    \/ \E c \in Orchestrations : TaskStart(c)
    \/ \E c \in Orchestrations : FetchReturns(c)
    \/ \E c \in Orchestrations : AcquireResumes(c)
    \/ \E c \in Orchestrations : Respond(c)
    \/ \E c \in Orchestrations : RespondWithDirective(c)

SpecFeedback == InitRevision /\ [][NextFeedback]_vars

\* the URLs of the directives written in a prompt
DirectiveUrls(s) == {DirectiveUrl(s, p) : p \in DirectiveStarts(s)}

\* C26 as stated: every URL the fetcher is asked for during a task is the
\* URL of a directive of the task's original prompt; for an original prompt
\* without directive the fetcher is never asked, whatever the feedback
\* holds.
C26_FetchesOnlyFromOriginalPrompt ==
    \A t \in Orchestrations :
        \A j \in 1..Len(tasks[t].fetched) :
            tasks[t].fetched[j] \in DirectiveUrls(TaskPromptOf(t))

\* what the code does keep: the fetcher is asked at most once per Worker
\* invocation, and a task whose original prompt holds a directive only ever
\* fetches that directive's URL, because the original prompt stands before
\* the feedback in the revision prompt
C26_OriginalDirectiveComesFirst ==
    \A t \in Orchestrations :
        /\ Len(tasks[t].fetched) <= tasks[t].worker_invocations
        /\ DirectiveStarts(TaskPromptOf(t)) # {} =>
               \A j \in 1..Len(tasks[t].fetched) :
                   tasks[t].fetched[j] =
                       DirectiveUrl(TaskPromptOf(t),
                                    Min(DirectiveStarts(TaskPromptOf(t))))

\* a task whose original prompt holds no directive has asked the fetcher
\* for the URL its Evaluator's feedback named
C26_Witness ==
    \E t \in Orchestrations :
        /\ DirectiveStarts(TaskPromptOf(t)) = {}
        /\ tasks[t].i >= 1
        /\ tasks[t].fetched # <<>>
        /\ tasks[t].fetched[1] = FeedbackUrl
        /\ tasks[t].pc = "fetch"

\* the streaming calls whose chunk sequence was returned and never pulled
Unpulled == {c \in Procs : tasks[c].stream /\ tasks[c].pc = "generator"}

\* the streaming calls suspended at a yield: the consumer has a chunk and
\* has not asked for the next one
IdleStreams == {c \in Procs : tasks[c].stream /\ tasks[c].pc = "yielded"}

\* C27: a streaming call holds no unit of the gate and waits for none while
\* its chunk sequence has been returned and not pulled; from the first pull
\* on it holds one unit, between pulls too, until the sequence ends by
\* exhaustion, failure or close, and none afterwards.  The units held by
\* idle streams are missing from the gate: with Capacity idle streams no
\* unit is free and no other call is past the gate.
C27_StreamHoldsFromFirstPull ==
    api_semaphore.present =>
        /\ \A c \in Procs :
               tasks[c].stream =>
                   /\ tasks[c].pc \in {"generator"} \cup FinalPcs =>
                          UnitsHeld(c) = 0 /\ WaitsOf(c) = {}
                   /\ tasks[c].pc \in {"create", "chunk", "yielded"} =>
                          UnitsHeld(c) = 1 /\ WaitsOf(c) = {}
                   /\ tasks[c].pc = "acquire" =>
                          Cardinality(WaitsOf(c)) = 1 /\ RequestsOf(c) = {}
                   /\ tasks[c].chunks >= 1 =>
                          tasks[c].pc \in {"chunk", "yielded"} \cup FinalPcs
        /\ api_semaphore.value + Cardinality(remote) + Cardinality(Granted)
               = Capacity
        /\ Cardinality(IdleStreams) <= Capacity
        /\ Cardinality(IdleStreams) = Capacity =>
               /\ api_semaphore.value = 0
               /\ \A d \in Procs \ IdleStreams :
                      /\ tasks[d].pc \notin {"create", "chunk"}
                      /\ d \notin Granted

\* every unit of the gate is held by a stream that gave a chunk and is left
\* idle, and another call is suspended behind it
C27_Witness ==
    /\ api_semaphore.present
    /\ IdleStreams # {}
    /\ Cardinality(IdleStreams) = Capacity
    /\ \A c \in IdleStreams : tasks[c].chunks >= 1
    /\ Suspended # {}

\* a chunk sequence was returned and not pulled while another call went
\* through the gate and ended: every unit is free
C27_UnpulledWitness ==
    /\ api_semaphore.present
    /\ Unpulled # {}
    /\ api_semaphore.value = Capacity
    /\ \E d \in Procs : tasks[d].pc \in FinalPcs /\ tasks[d].dispatched >= 1

IsSystemNote(msg) == msg.type = "system_message"

\* the entries of the log after its last evaluation entry
LogTail(log) ==
    SubSeq(log, 3 * Len(SelectSeq(log, IsEvaluation)) + 1, Len(log))

\* the log is complete groups (user turn, assistant turn, evaluation entry)
\* followed by nothing, by the note of a Worker failure, by a user turn and
\* an assistant turn whose evaluation is pending, or by these two and the
\* note of an Evaluator failure
C28_LogShape ==
    \A t \in Orchestrations :
        LET log == tasks[t].full_interaction_log
            groups == Len(SelectSeq(log, IsEvaluation))
            tail == LogTail(log)
            notes == Len(SelectSeq(log, IsSystemNote))
        IN  /\ 3 * groups <= Len(log)
            /\ \A j \in 1..(3 * groups) :
                   CASE j % 3 = 1 -> IsUserTurn(log[j])
                     [] j % 3 = 2 -> IsAssistantTurn(log[j])
                     [] OTHER -> IsEvaluation(log[j])
            /\ \/ tail = <<>>
               \/ /\ Len(tail) = 1
                  /\ tail[1] = [type |-> "system_message",
                                content |-> <<"Worker failed to respond.">>]
               \/ /\ Len(tail) = 2
                  /\ IsUserTurn(tail[1]) /\ IsAssistantTurn(tail[2])
               \/ /\ Len(tail) = 3
                  /\ IsUserTurn(tail[1]) /\ IsAssistantTurn(tail[2])
                  /\ tail[3] = [type |-> "system_message",
                                content |-> <<"Evaluator failed.">>]
            /\ notes <= 1
            /\ notes = 1 => IsSystemNote(log[Len(log)])
            /\ UserTurns(log) = AssistantTurns(log)
            /\ AssistantTurns(log) <= MAX_ITERATIONS
            /\ groups \in {AssistantTurns(log), AssistantTurns(log) - 1}

\* a step leaves the entries of the log as they are and in their place; it
\* may add entries at the end.  (The log of a cancelled orchestration is
\* gone with the orchestration.)
C28_AppendOnly ==
    \A t \in Orchestrations :
        LET log == tasks[t].full_interaction_log
        IN  tasks'[t].pc # "raised" =>
                /\ Len(tasks'[t].full_interaction_log) >= Len(log)
                /\ SubSeq(tasks'[t].full_interaction_log, 1, Len(log)) = log
                /\ (log # <<>> /\ IsSystemNote(log[Len(log)])) =>
                       tasks'[t].full_interaction_log = log

\* C28: the interaction log of a task only grows at its end, and in every
\* state it is zero or more complete groups (user turn, assistant turn,
\* evaluation entry), optionally followed by one system note (Worker
\* failure), by a user turn and an assistant turn (evaluation pending) or by
\* these two and one system note (Evaluator failure): at most one system
\* note, always the last entry; as many user turns as assistant turns, at
\* most MAX_ITERATIONS; as many evaluation entries as assistant turns, or
\* one fewer.
C28_LogGrowsInGroups == []C28_LogShape /\ [][C28_AppendOnly]_vars

\* one orchestration has ended on an Evaluator failure after two complete
\* groups, another on a Worker failure after one
C28_Witness ==
    \E t, u \in Orchestrations :
        /\ Len(tasks[t].full_interaction_log) = 9
        /\ IsSystemNote(tasks[t].full_interaction_log[9])
        /\ Len(tasks[u].full_interaction_log) = 4
        /\ IsSystemNote(tasks[u].full_interaction_log[4])

=============================================================================
